---- MODULE Spec2Model ----
(***************************************************************************)
(* Model of the diff engine of the variants comparer server                *)
(* (src/unnamed/part_000): computeLineDiff, calculateStringSimilarity and  *)
(* levenshteinDistance, calculateSimilarity and the handler of             *)
(* GET /api/suggest-mappings, together with the line diff and the          *)
(* character diff of the npm package `diff` (diffLines, diffChars) that    *)
(* they call.  Each of these is a call of its own: a behaviour of one of   *)
(* the specifications below is one call, and the variables of the other    *)
(* calls stay at their unused values.                                      *)
(*                                                                         *)
(* A text is a sequence of one-character strings; "\n" is the newline.     *)
(* A line is a sequence of characters without "\n".                        *)
(***************************************************************************)
EXTENDS Integers, Sequences, FiniteSets, TLC

VARIABLES
    baseContent,      \* argument baseContent of computeLineDiff
    variantContent,   \* argument variantContent of computeLineDiff
    result,           \* `result`: the entries of the raw line diff
    processed,        \* `processed`: the entries returned
    i,                \* scan index into result (1-based here)
    j,                \* index just behind the collected remove/add chunk
    removeLines,      \* indices into result of the current run of removes
    addLines,         \* indices into result of the run of adds that follows
    usedAddIndices,   \* positions in addLines already consumed by a modify
    r,                \* position in removeLines of the next remove to pair
    bestMatch,        \* bestMatch.addIdx of the last remove handled, 0 = null
    pc,               \* position in the call that is running
    argContent1,      \* argument content1 of calculateSimilarity
    argContent2,      \* argument content2 of calculateSimilarity
    contentSimilarity,\* the value calculateSimilarity returns
    argStr1,          \* argument str1 of calculateStringSimilarity
    argStr2,          \* argument str2 of calculateStringSimilarity
    stringSimilarity, \* the value calculateStringSimilarity returns
    thresholdParam,   \* req.query.threshold of GET /api/suggest-mappings
    config,           \* the active exercise of the configuration read
    files,            \* the files under the directories of each variant
    threshold,        \* `threshold`
    baseFileMap,      \* `baseFileMap`
    idx,              \* `idx`: number of variants compared so far
    suggestions,      \* `suggestions` in the order they were pushed
    response,         \* what the handler of /api/suggest-mappings answered
    calls,            \* how many times the operation has been called
    previous,         \* what the call before this one returned
    stored,           \* the configuration in the file at CONFIG_PATH
    payload,          \* req.body of POST /api/download
    targetRoot,       \* `targetRoot`
    index,            \* `index`: number of variants downloaded so far
    ensured,          \* the directories made by ensureDir and ensureDirSync
    cloned,           \* the destinations cloneRepository was called with
    notes,            \* the notes.md files written
    events,           \* `events`
    downloadResponse, \* what the handler of /api/download answered
    reviewBody,       \* req.body of the POST /api/review-status being handled
    reviewConfig,     \* `config` of the handler of POST /api/review-status
    reviewResponse,   \* what the handler of POST /api/review-status answered
    reviewCount,      \* number of POST /api/review-status requests so far
    initialReviews,   \* the review list the file held at first
    latest,           \* the status of the latest completed request of a key
    saveBody,         \* req.body of the POST /api/save being handled
    existingConfig,   \* `existingConfig` of the handler of POST /api/save
    savePc,           \* position in the handler of POST /api/save
    saveCount,        \* number of POST /api/save requests so far
    saveResponse,     \* what the handler of POST /api/save answered
    compareBody,      \* req.body of POST /api/compare
    compareConfig,    \* `config` of the handler of POST /api/compare
    disk,             \* the directory of each variant for the compare type
    baseRepoFiles,    \* `baseRepoFiles`
    variantFileMaps,  \* `variantFileMaps`, of the variants handled so far
    variantFiles,     \* `variantFiles` of the variant being handled
    mappedFiles,      \* `mappedFiles` of the variant being handled
    fileIndex,        \* number of the next entry of variantFiles in forEach
    compareResponse,  \* what the handler of POST /api/compare answered
    exercises,        \* state `exercises` of ExerciseProvider
    activeExerciseIndex, \* state `activeExerciseIndex` of ExerciseProvider
    isSaving,         \* state `isSaving` of ExerciseProvider
    timeoutId,        \* the timer of the save effect and the time it has left
    delays,           \* the time left of each delay of fetchComparison
    requests,         \* the requests of the client that are under way
    comparison,       \* state `comparison` of ComparePage
    operations,       \* number of calls of the operations of the provider
    lastCall          \* the latest of these calls and the state it found

lineDiffVars == <<baseContent, variantContent, result, processed, i, j,
                  removeLines, addLines, usedAddIndices, r, bestMatch>>

similarityVars == <<argContent1, argContent2, contentSimilarity>>

stringSimilarityVars == <<argStr1, argStr2, stringSimilarity>>

suggestVars == <<thresholdParam, config, files, threshold, baseFileMap, idx,
                 suggestions, response>>

repeatVars == <<calls, previous>>

storeVars == <<stored>>

downloadVars == <<payload, targetRoot, index, ensured, cloned, notes, events,
                  downloadResponse>>

reviewVars == <<reviewBody, reviewConfig, reviewResponse, reviewCount,
                initialReviews, latest>>

saveVars == <<saveBody, existingConfig, savePc, saveCount, saveResponse>>

compareVars == <<compareBody, compareConfig, disk, baseRepoFiles,
                 variantFileMaps, variantFiles, mappedFiles, fileIndex,
                 compareResponse>>

clientVars == <<exercises, activeExerciseIndex, isSaving, timeoutId, delays,
                requests, comparison, operations, lastCall>>

laterVars == <<storeVars, downloadVars, reviewVars, saveVars, compareVars,
               clientVars>>

vars == <<lineDiffVars, similarityVars, stringSimilarityVars, suggestVars,
          repeatVars, laterVars, pc>>

earlierVars == <<lineDiffVars, similarityVars, stringSimilarityVars,
                 suggestVars, repeatVars>>

otherThanDownloadVars ==
    <<earlierVars, reviewVars, saveVars, compareVars, clientVars>>

otherThanReviewVars ==
    <<earlierVars, downloadVars, saveVars, compareVars, clientVars>>

otherThanSaveVars ==
    <<earlierVars, downloadVars, reviewVars, compareVars, clientVars>>

otherThanCompareVars ==
    <<earlierVars, storeVars, downloadVars, reviewVars, saveVars, clientVars>>

otherThanClientVars ==
    <<earlierVars, downloadVars, reviewVars, saveVars, compareVars, pc>>

\* what a call leaves alone: the variables of the other calls
otherThanLineDiffVars ==
    <<similarityVars, stringSimilarityVars, suggestVars, repeatVars,
      laterVars>>

otherThanSimilarityVars ==
    <<lineDiffVars, stringSimilarityVars, suggestVars, repeatVars,
      laterVars>>

otherThanStringSimilarityVars ==
    <<lineDiffVars, similarityVars, suggestVars, repeatVars,
      laterVars>>

otherThanSuggestVars ==
    <<lineDiffVars, similarityVars, stringSimilarityVars, repeatVars,
      laterVars>>

-----------------------------------------------------------------------------
(* Bounds of the model and the lines the inputs are built from: the lines  *)
(* of a base text are drawn from BaseLineSet, those of a variant text from *)
(* VariantLineSet, and either text may or may not end with a newline.      *)

MaxLines == 2

NL == "\n"

foo   == <<"f", "o", "o">>
bar   == <<"b", "a", "r">>
baz   == <<"b", "a", "z">>
alpha == <<"a", "l", "p", "h", "a">>
beta  == <<"b", "e", "t", "a">>
zzz   == <<"z", "z", "z">>
emptyLine == <<>>

BaseLineSet == {foo, bar, alpha, beta, emptyLine}
VariantLineSet == {foo, bar, baz, beta, zzz, emptyLine}

Min(a, b) == IF a < b THEN a ELSE b
Max(a, b) == IF a > b THEN a ELSE b

RECURSIVE JoinLines(_, _)
\* The text whose lines are ls; the last line is terminated by a newline
\* iff eofNewline.
JoinLines(ls, eofNewline) ==
    IF ls = <<>> THEN <<>>
    ELSE IF Len(ls) = 1
         THEN IF eofNewline THEN Head(ls) \o <<NL>> ELSE Head(ls)
         ELSE Head(ls) \o <<NL>> \o JoinLines(Tail(ls), eofNewline)

LineSeqs(lineSet) == UNION {[1..n -> lineSet] : n \in 0..MaxLines}

Texts(lineSet) == {JoinLines(ls, nl) : ls \in LineSeqs(lineSet), nl \in BOOLEAN}

-----------------------------------------------------------------------------
(* String.prototype.split('\n') and the line tokenizer of diffLines.       *)

RECURSIVE IndexOfNL(_, _)
\* Least k >= from with s[k] = "\n", or 0 when there is none.
IndexOfNL(s, from) ==
    IF from > Len(s) THEN 0
    ELSE IF s[from] = NL THEN from
    ELSE IndexOfNL(s, from + 1)

RECURSIVE split(_)
\* value.split('\n'): the pieces between newlines; never empty.
split(s) ==
    LET k == IndexOfNL(s, 1)
    IN  IF k = 0 THEN <<s>>
        ELSE <<SubSeq(s, 1, k - 1)>> \o split(SubSeq(s, k + 1, Len(s)))

\* faulty variant of changeLines: the filter is forgotten, so a value that
\* ends with a newline yields a spurious empty last line
changeLinesUnfiltered(value) == split(value)

\* change.value.split('\n').filter((line, idx, arr) =>
\*     idx < arr.length - 1 || line !== '')
changeLines(value) ==
    LET arr == split(value)
        n   == Len(arr)
    IN  IF arr[n] = <<>> THEN SubSeq(arr, 1, n - 1) ELSE arr

RECURSIVE tokenize(_)
\* lineDiff.tokenize: every token is a line with its newline; a last line
\* without newline is a token of its own; the empty text has no token.
tokenize(value) ==
    IF value = <<>> THEN <<>>
    ELSE LET k == IndexOfNL(value, 1)
         IN  IF k = 0 THEN <<value>>
             ELSE <<SubSeq(value, 1, k)>> \o
                  tokenize(SubSeq(value, k + 1, Len(value)))

removeEmpty(tokens) == SelectSeq(tokens, LAMBDA t : t # <<>>)

RECURSIVE join(_)
\* Diff.join: the tokens concatenated
join(tokens) ==
    IF tokens = <<>> THEN <<>>
    ELSE IF Len(tokens) = 1 THEN Head(tokens)
    ELSE LET half == Len(tokens) \div 2
         IN  join(SubSeq(tokens, 1, half)) \o
             join(SubSeq(tokens, half + 1, Len(tokens)))

-----------------------------------------------------------------------------
(* diffLines of the npm package `diff`: Myers' shortest edit script over   *)
(* the line tokens, as Diff.diffWithOptionsObj computes it.  Positions     *)
(* oldPos/newPos are the 0-based indices of the last token consumed        *)
(* (-1 = none), a diagonal is oldPos - newPos, and a path carries its      *)
(* components (runs of equal, added or removed tokens) oldest first.       *)

NoPath == [defined |-> FALSE, oldPos |-> -1, comps |-> <<>>]

Component(count, added, removed) ==
    [count |-> count, added |-> added, removed |-> removed]

\* Diff.addToPath: one more added or removed token; it joins the last
\* component when that has the same kind.
addToPath(path, added, removed, oldPosInc) ==
    LET n == Len(path.comps)
    IN  IF n > 0 /\ path.comps[n].added = added /\ path.comps[n].removed = removed
        THEN [defined |-> TRUE,
              oldPos  |-> path.oldPos + oldPosInc,
              comps   |-> [path.comps EXCEPT ![n].count = @ + 1]]
        ELSE [defined |-> TRUE,
              oldPos  |-> path.oldPos + oldPosInc,
              comps   |-> Append(path.comps, Component(1, added, removed))]

\* Number of equal tokens that follow positions oldPos / newPos: the loop
\* of Diff.extractCommon stops at the first pair of tokens that differ or at
\* the end of either list.
commonCount(oldTokens, newTokens, oldPos, newPos) ==
    LET left == Min(Len(newTokens) - (newPos + 1), Len(oldTokens) - (oldPos + 1))
    IN  IF left <= 0 THEN 0
        ELSE CHOOSE c \in 0..left :
                /\ \A k \in 1..c : oldTokens[oldPos + 1 + k] = newTokens[newPos + 1 + k]
                /\ c < left => oldTokens[oldPos + 2 + c] # newTokens[newPos + 2 + c]

\* Diff.extractCommon: follow the diagonal as far as the tokens agree.
extractCommon(basePath, newTokens, oldTokens, diagonalPath) ==
    LET c == commonCount(oldTokens, newTokens, basePath.oldPos,
                         basePath.oldPos - diagonalPath)
    IN  [defined |-> TRUE,
         oldPos  |-> basePath.oldPos + c,
         comps   |-> IF c > 0
                     THEN Append(basePath.comps, Component(c, FALSE, FALSE))
                     ELSE basePath.comps]

\* One pass of the loop body of execEditLength for the diagonal
\* s.diagonalPath, or the step to the next edit length when the diagonals of
\* this one are exhausted.  s.done is set when a path has reached the end
\* of both token lists; s.comps are then its components.
diagonalStep(oldTokens, newTokens, s) ==
    LET oldLen       == Len(oldTokens)
        newLen       == Len(newTokens)
        diagonalPath == s.diagonalPath
        bestPath     == s.bestPath
    IN
    IF diagonalPath > Min(s.maxDiagonalToConsider, s.editLength)
    THEN [s EXCEPT !.editLength = @ + 1,
                   !.diagonalPath = Max(s.minDiagonalToConsider, -(s.editLength + 1))]
    ELSE
    LET removePath == bestPath[diagonalPath - 1]
        addPath    == bestPath[diagonalPath + 1]
        cleared    == IF removePath.defined
                      THEN [bestPath EXCEPT ![diagonalPath - 1] = NoPath]
                      ELSE bestPath
        addPathNewPos == addPath.oldPos - diagonalPath
        canAdd     == /\ addPath.defined
                      /\ 0 <= addPathNewPos
                      /\ addPathNewPos < newLen
        canRemove  == removePath.defined /\ removePath.oldPos + 1 < oldLen
    IN
    IF ~canAdd /\ ~canRemove
    THEN [s EXCEPT !.bestPath = [cleared EXCEPT ![diagonalPath] = NoPath],
                   !.diagonalPath = @ + 2]
    ELSE
    LET stepped  == IF ~canRemove \/ (canAdd /\ removePath.oldPos < addPath.oldPos)
                    THEN addToPath(addPath, TRUE, FALSE, 0)
                    ELSE addToPath(removePath, FALSE, TRUE, 1)
        basePath == extractCommon(stepped, newTokens, oldTokens, diagonalPath)
        newPos   == basePath.oldPos - diagonalPath
    IN
    IF basePath.oldPos + 1 >= oldLen /\ newPos + 1 >= newLen
    THEN [s EXCEPT !.done = TRUE, !.comps = basePath.comps]
    ELSE [s EXCEPT !.bestPath = [cleared EXCEPT ![diagonalPath] = basePath],
                   !.diagonalPath = @ + 2,
                   !.minDiagonalToConsider =
                       IF newPos + 1 >= newLen THEN Max(@, diagonalPath + 1) ELSE @,
                   !.maxDiagonalToConsider =
                       IF basePath.oldPos + 1 >= oldLen
                       THEN Min(@, diagonalPath - 1) ELSE @]

\* the loops have ended: a path reached the end of both token lists, or the
\* edit length exceeds maxEditLength
loopsEnded(oldTokens, newTokens, s) ==
    s.done \/ s.editLength > Len(oldTokens) + Len(newTokens)

RECURSIVE passes(_, _, _, _)
\* s after 2^k further passes of the loop body, or fewer when the loops end
\* before
passes(oldTokens, newTokens, s, k) ==
    IF loopsEnded(oldTokens, newTokens, s) THEN s
    ELSE IF k = 0 THEN diagonalStep(oldTokens, newTokens, s)
    ELSE passes(oldTokens, newTokens,
                passes(oldTokens, newTokens, s, k - 1), k - 1)

RECURSIVE allPasses(_, _, _, _)
\* s after the passes of the loop body up to the end of the loops
allPasses(oldTokens, newTokens, s, k) ==
    IF loopsEnded(oldTokens, newTokens, s) THEN s
    ELSE allPasses(oldTokens, newTokens,
                   passes(oldTokens, newTokens, s, k), k + 1)

\* The loops over the edit lengths and their diagonals; the result is the
\* components of the first path that reaches the end of both token lists.
execEditLength(oldTokens, newTokens, s) ==
    LET last == allPasses(oldTokens, newTokens, s, 0)
    IN  IF last.done THEN last.comps ELSE <<>>

RECURSIVE buildValues(_, _, _, _, _)
\* Diff.buildValues: the text of each component; removed components are
\* cut from the old tokens, the others from the new tokens.
buildValues(comps, newTokens, oldTokens, newPos, oldPos) ==
    IF comps = <<>> THEN <<>>
    ELSE LET c == Head(comps)
         IN  IF ~c.removed
             THEN <<[value   |-> join(SubSeq(newTokens, newPos + 1, newPos + c.count)),
                     count   |-> c.count,
                     added   |-> c.added,
                     removed |-> FALSE]>>
                  \o buildValues(Tail(comps), newTokens, oldTokens,
                                 newPos + c.count,
                                 IF c.added THEN oldPos ELSE oldPos + c.count)
             ELSE <<[value   |-> join(SubSeq(oldTokens, oldPos + 1, oldPos + c.count)),
                     count   |-> c.count,
                     added   |-> FALSE,
                     removed |-> TRUE]>>
                  \o buildValues(Tail(comps), newTokens, oldTokens,
                                 newPos, oldPos + c.count)

\* The diff of two token lists: the change objects in order.
diffTokens(oldTokens, newTokens) ==
    LET oldLen    == Len(oldTokens)
        newLen    == Len(newTokens)
        limit     == oldLen + newLen + 1
        start     == extractCommon([defined |-> TRUE, oldPos |-> -1, comps |-> <<>>],
                                   newTokens, oldTokens, 0)
        comps     == IF start.oldPos + 1 >= oldLen /\ start.oldPos + 1 >= newLen
                     THEN start.comps
                     ELSE execEditLength(oldTokens, newTokens,
                              [bestPath |-> [d \in (-limit)..limit |->
                                                IF d = 0 THEN start ELSE NoPath],
                               editLength   |-> 1,
                               diagonalPath |-> -1,
                               minDiagonalToConsider |-> -limit,
                               maxDiagonalToConsider |-> limit,
                               done  |-> FALSE,
                               comps |-> <<>>])
    IN  buildValues(comps, newTokens, oldTokens, 0, 0)

\* diffLines(oldStr, newStr)
diffLines(oldStr, newStr) ==
    diffTokens(removeEmpty(tokenize(oldStr)), removeEmpty(tokenize(newStr)))

-----------------------------------------------------------------------------
(* levenshteinDistance and calculateStringSimilarity.  A similarity is the *)
(* exact fraction [num, den] of the quotient the code computes in floating *)
(* point; fractions are compared by cross multiplication.                  *)

Min3(a, b, c) == Min(a, Min(b, c))

RECURSIVE fillRowWithoutSubstitution(_, _, _, _, _)
\* faulty variant of fillRow: the cell diagonally before is not considered
\* when the characters differ, so a substitution costs two
fillRowWithoutSubstitution(prev, cur, str1, str2, row) ==
    LET col == Len(cur)
    IN  IF col > Len(str1) THEN cur
        ELSE fillRowWithoutSubstitution(prev,
                     Append(cur,
                            IF str2[row] = str1[col]
                            THEN prev[col]
                            ELSE Min(cur[col] + 1, prev[col + 1] + 1)),
                     str1, str2, row)

RECURSIVE fillRow(_, _, _, _, _)
\* Row i of the matrix (cells 0..Len(str1), kept at positions 1..Len(str1)+1)
\* from row i-1 (prev) and the cells of row i computed so far (cur).
fillRow(prev, cur, str1, str2, row) ==
    LET col == Len(cur)
    IN  IF col > Len(str1) THEN cur
        ELSE fillRow(prev,
                     Append(cur,
                            IF str2[row] = str1[col]
                            THEN prev[col]
                            ELSE Min3(prev[col] + 1, cur[col] + 1, prev[col + 1] + 1)),
                     str1, str2, row)

RECURSIVE lastRow(_, _, _, _)
lastRow(prev, str1, str2, row) ==
    IF row > Len(str2) THEN prev
    ELSE lastRow(fillRow(prev, <<row>>, str1, str2, row), str1, str2, row + 1)

levenshteinDistance(str1, str2) ==
    lastRow([c \in 1..(Len(str1) + 1) |-> c - 1], str1, str2, 1)[Len(str1) + 1]

Fraction(num, den) == [num |-> num, den |-> den]

\* a > b for fractions with positive denominators
Greater(a, b) == a.num * b.den > b.num * a.den

\* faulty variant of calculateStringSimilarity: the test for an empty
\* string comes before the test for equal strings
calculateStringSimilarityEmptyFirst(str1, str2) ==
    IF str1 = <<>> \/ str2 = <<>> THEN Fraction(0, 1)
    ELSE IF str1 = str2 THEN Fraction(1, 1)
    ELSE LET longer == IF Len(str1) > Len(str2) THEN str1 ELSE str2
         IN  IF Len(longer) = 0 THEN Fraction(1, 1)
             ELSE Fraction(Len(longer) - levenshteinDistance(str1, str2),
                           Len(longer))

calculateStringSimilarity(str1, str2) ==
    IF str1 = str2 THEN Fraction(1, 1)
    ELSE IF str1 = <<>> \/ str2 = <<>> THEN Fraction(0, 1)
    ELSE LET longer == IF Len(str1) > Len(str2) THEN str1 ELSE str2
         IN  IF Len(longer) = 0 THEN Fraction(1, 1)
             ELSE Fraction(Len(longer) - levenshteinDistance(str1, str2),
                           Len(longer))

\* the literal 0.2 of the pairing condition
Threshold == Fraction(1, 5)

-----------------------------------------------------------------------------
(* computeLineDiff.                                                        *)

\* faulty variant of ModifyEntry: the variant line is left out
ModifyEntryWithoutVariant(baseStr, variantStr) ==
    [base |-> baseStr, type |-> "modify"]

EqualEntry(line)  == [base |-> line, variant |-> line, type |-> "equal"]
RemoveEntry(line) == [base |-> line, type |-> "remove"]
AddEntry(line)    == [variant |-> line, type |-> "add"]
ModifyEntry(baseStr, variantStr) ==
    [base |-> baseStr, variant |-> variantStr, type |-> "modify"]

\* truthiness of a string: the empty string is falsy
Truthy(str) == str # <<>>

\* faulty variant of changeEntries: added and removed are mixed up
changeEntriesSwapped(change) ==
    LET lines == changeLines(change.value)
    IN  [k \in 1..Len(lines) |->
            IF ~change.added /\ ~change.removed
            THEN [base |-> lines[k], variant |-> lines[k], type |-> "equal"]
            ELSE IF change.added THEN [base |-> lines[k], type |-> "remove"]
            ELSE [variant |-> lines[k], type |-> "add"]]

changeEntries(change) ==
    LET lines == changeLines(change.value)
    IN  [k \in 1..Len(lines) |->
            IF ~change.added /\ ~change.removed THEN EqualEntry(lines[k])
            ELSE IF change.removed THEN RemoveEntry(lines[k])
            ELSE AddEntry(lines[k])]

RECURSIVE rawEntries(_)
\* the first loop: one entry per line of every change
rawEntries(changes) ==
    IF changes = <<>> THEN <<>>
    ELSE changeEntries(Head(changes)) \o rawEntries(Tail(changes))

RECURSIVE runEndAcrossEqual(_, _, _)
\* faulty variant of runEnd: a run of adds is continued across equal lines
runEndAcrossEqual(entries, from, type) ==
    IF /\ from <= Len(entries)
       /\ \/ entries[from].type = type
          \/ type = "add" /\ entries[from].type = "equal"
    THEN runEndAcrossEqual(entries, from + 1, type)
    ELSE from

RECURSIVE runEnd(_, _, _)
\* first index >= from whose entry is not of the given type
runEnd(entries, from, type) ==
    IF from <= Len(entries) /\ entries[from].type = type
    THEN runEnd(entries, from + 1, type)
    ELSE from

\* the {index, line} pairs of entries[from .. to-1]
indexed(entries, from, to) ==
    [k \in 1..(to - from) |-> [index |-> from + k - 1, line |-> entries[from + k - 1]]]

NoMatch == [addIdx |-> 0, similarity |-> Fraction(0, 1)]

RECURSIVE findBestMatchLastTie(_, _, _, _, _)
\* faulty variant of findBestMatch: of several best add lines the last wins
\* (similarity >= bestMatch.similarity)
findBestMatchLastTie(removePair, adds, used, addIdx, best) ==
    IF addIdx > Len(adds) THEN best
    ELSE IF addIdx \in used
    THEN findBestMatchLastTie(removePair, adds, used, addIdx + 1, best)
    ELSE LET addPair    == adds[addIdx]
             similarity == calculateStringSimilarity(removePair.line.base,
                                                     addPair.line.variant)
         IN  IF /\ removePair.line.base # <<>>
                /\ addPair.line.variant # <<>>
                /\ Greater(similarity, Threshold)
                /\ (best.addIdx = 0 \/ ~Greater(best.similarity, similarity))
             THEN findBestMatchLastTie(removePair, adds, used, addIdx + 1,
                                       [addIdx |-> addIdx, similarity |-> similarity])
             ELSE findBestMatchLastTie(removePair, adds, used, addIdx + 1, best)

RECURSIVE findBestMatchAtLeast(_, _, _, _, _)
\* faulty variant of findBestMatch: the threshold is not strict
\* (similarity >= 0.2)
findBestMatchAtLeast(removePair, adds, used, addIdx, best) ==
    IF addIdx > Len(adds) THEN best
    ELSE IF addIdx \in used
    THEN findBestMatchAtLeast(removePair, adds, used, addIdx + 1, best)
    ELSE LET addPair    == adds[addIdx]
             similarity == calculateStringSimilarity(removePair.line.base,
                                                     addPair.line.variant)
         IN  IF /\ removePair.line.base # <<>>
                /\ addPair.line.variant # <<>>
                /\ ~Greater(Threshold, similarity)
                /\ (best.addIdx = 0 \/ Greater(similarity, best.similarity))
             THEN findBestMatchAtLeast(removePair, adds, used, addIdx + 1,
                                       [addIdx |-> addIdx, similarity |-> similarity])
             ELSE findBestMatchAtLeast(removePair, adds, used, addIdx + 1, best)

RECURSIVE findBestMatchReuse(_, _, _, _, _)
\* faulty variant of findBestMatch: add lines already used are not skipped
findBestMatchReuse(removePair, adds, used, addIdx, best) ==
    IF addIdx > Len(adds) THEN best
    ELSE LET addPair    == adds[addIdx]
             similarity == calculateStringSimilarity(removePair.line.base,
                                                     addPair.line.variant)
         IN  IF /\ removePair.line.base # <<>>
                /\ addPair.line.variant # <<>>
                /\ Greater(similarity, Threshold)
                /\ (best.addIdx = 0 \/ Greater(similarity, best.similarity))
             THEN findBestMatchReuse(removePair, adds, used, addIdx + 1,
                                     [addIdx |-> addIdx, similarity |-> similarity])
             ELSE findBestMatchReuse(removePair, adds, used, addIdx + 1, best)

RECURSIVE findBestMatch(_, _, _, _, _)
\* the loop over addIdx for one remove line; best is bestMatch so far
findBestMatch(removePair, adds, used, addIdx, best) ==
    IF addIdx > Len(adds) THEN best
    ELSE IF addIdx \in used
    THEN findBestMatch(removePair, adds, used, addIdx + 1, best)
    ELSE LET addPair    == adds[addIdx]
             similarity == calculateStringSimilarity(removePair.line.base,
                                                     addPair.line.variant)
         IN  IF /\ Truthy(removePair.line.base)
                /\ Truthy(addPair.line.variant)
                /\ Greater(similarity, Threshold)
                /\ (best.addIdx = 0 \/ Greater(similarity, best.similarity))
             THEN findBestMatch(removePair, adds, used, addIdx + 1,
                                [addIdx |-> addIdx, similarity |-> similarity])
             ELSE findBestMatch(removePair, adds, used, addIdx + 1, best)

\* faulty variant of unmatchedAdds: the spare add lines come out reversed
unmatchedAddsReversed(adds, used) ==
    LET keep == SelectSeq([k \in 1..Len(adds) |-> k], LAMBDA k : k \notin used)
    IN  [k \in 1..Len(keep) |-> adds[keep[Len(keep) + 1 - k]].line]

\* the add lines that no modify consumed, in their order
unmatchedAdds(adds, used) ==
    LET keep == SelectSeq([k \in 1..Len(adds) |-> k], LAMBDA k : k \notin used)
    IN  [k \in 1..Len(keep) |-> adds[keep[k]].line]

\* faulty variant of linesOf: the last line is lost
linesOfButLast(pairs) == [k \in 1..(Len(pairs) - 1) |-> pairs[k].line]

linesOf(pairs) == [k \in 1..Len(pairs) |-> pairs[k].line]

-----------------------------------------------------------------------------
-----------------------------------------------------------------------------
(* The values the variables of a call have while another call runs.        *)

LineDiffUnused ==
    /\ baseContent = <<>>
    /\ variantContent = <<>>
    /\ result = <<>>
    /\ processed = <<>>
    /\ i = 1
    /\ j = 1
    /\ removeLines = <<>>
    /\ addLines = <<>>
    /\ usedAddIndices = {}
    /\ r = 1
    /\ bestMatch = NoMatch

SimilarityUnused ==
    /\ argContent1 = <<>>
    /\ argContent2 = <<>>
    /\ contentSimilarity = 0

StringSimilarityUnused ==
    /\ argStr1 = <<>>
    /\ argStr2 = <<>>
    /\ stringSimilarity = Fraction(0, 1)

\* a query parameter that the request does not carry
NoParam == [given |-> FALSE, value |-> <<>>]

NoConfig == [present |-> FALSE, variants |-> <<>>]

NotANumber == [nan |-> TRUE, value |-> 0]

NoResponse == [status |-> 0]

SuggestUnused ==
    /\ thresholdParam = NoParam
    /\ config = NoConfig
    /\ files = <<>>
    /\ threshold = NotANumber
    /\ baseFileMap = <<>>
    /\ idx = 0
    /\ suggestions = <<>>
    /\ response = NoResponse

\* the result of a call that has not been made
Nothing == [returned |-> FALSE]

\* the operation is called for the first time
FirstCall ==
    /\ calls = 1
    /\ previous = Nothing

\* no exercise and no review
NoStore == [exercises |-> <<>>, activeExerciseIndex |-> 0, reviewStatuses |-> <<>>]

StoreUnused == stored = NoStore

NoPayload == [targetFolder |-> <<>>, exerciseName |-> <<>>, variants |-> <<>>]

DownloadUnused ==
    /\ payload = NoPayload
    /\ targetRoot = <<>>
    /\ index = 0
    /\ ensured = {}
    /\ cloned = <<>>
    /\ notes = {}
    /\ events = <<>>
    /\ downloadResponse = NoResponse

NoBody == [given |-> FALSE]

ReviewUnused ==
    /\ reviewBody = NoBody
    /\ reviewConfig = NoStore
    /\ reviewResponse = NoResponse
    /\ reviewCount = 0
    /\ initialReviews = <<>>
    /\ latest = <<>>

SaveUnused ==
    /\ saveBody = NoBody
    /\ existingConfig = NoStore
    /\ savePc = "idle"
    /\ saveCount = 0
    /\ saveResponse = NoResponse

NoDirectory == [exists |-> FALSE, files |-> <<>>]

CompareUnused ==
    /\ compareBody = NoBody
    /\ compareConfig = NoConfig
    /\ disk = <<>>
    /\ baseRepoFiles = <<>>
    /\ variantFileMaps = <<>>
    /\ variantFiles = <<>>
    /\ mappedFiles = <<>>
    /\ fileIndex = 0
    /\ compareResponse = NoResponse

NoTimer == [pending |-> FALSE]

NoCall == [op |-> "none"]

ClientUnused ==
    /\ exercises = <<>>
    /\ activeExerciseIndex = 0
    /\ isSaving = FALSE
    /\ timeoutId = NoTimer
    /\ delays = <<>>
    /\ requests = <<>>
    /\ comparison = Nothing
    /\ operations = 0
    /\ lastCall = NoCall

LaterUnused ==
    StoreUnused /\ DownloadUnused /\ ReviewUnused /\ SaveUnused
        /\ CompareUnused /\ ClientUnused

EarlierUnused ==
    /\ LineDiffUnused
    /\ SimilarityUnused
    /\ StringSimilarityUnused
    /\ SuggestUnused
    /\ FirstCall

OnlyDownload ==
    EarlierUnused /\ ReviewUnused /\ SaveUnused /\ CompareUnused
        /\ ClientUnused

OnlyReview ==
    EarlierUnused /\ DownloadUnused /\ SaveUnused /\ CompareUnused
        /\ ClientUnused

OnlyReviewAndSave ==
    EarlierUnused /\ DownloadUnused /\ CompareUnused /\ ClientUnused

OnlyCompare ==
    EarlierUnused /\ StoreUnused /\ DownloadUnused /\ ReviewUnused
        /\ SaveUnused /\ ClientUnused

OnlyClient ==
    EarlierUnused /\ DownloadUnused /\ ReviewUnused /\ SaveUnused
        /\ CompareUnused

\* the state of what a specification leaves alone
OnlyLineDiff ==
    SimilarityUnused /\ StringSimilarityUnused /\ SuggestUnused /\ FirstCall
        /\ LaterUnused

OnlySimilarity ==
    LineDiffUnused /\ StringSimilarityUnused /\ SuggestUnused /\ FirstCall
        /\ LaterUnused

OnlyStringSimilarity ==
    LineDiffUnused /\ SimilarityUnused /\ SuggestUnused /\ FirstCall
        /\ LaterUnused

OnlySuggest ==
    LineDiffUnused /\ SimilarityUnused /\ StringSimilarityUnused /\ FirstCall
        /\ LaterUnused

Init ==
    /\ baseContent \in Texts(BaseLineSet)
    /\ variantContent \in Texts(VariantLineSet)
    /\ result = <<>>
    /\ processed = <<>>
    /\ i = 1
    /\ j = 1
    /\ removeLines = <<>>
    /\ addLines = <<>>
    /\ usedAddIndices = {}
    /\ r = 1
    /\ bestMatch = NoMatch
    /\ pc = "diff"
    /\ OnlyLineDiff

\* lines 106-134: the line diff and its entries
DiffStep ==
    /\ pc = "diff"
    /\ result' = rawEntries(diffLines(baseContent, variantContent))
    /\ pc' = "scan"
    /\ UNCHANGED <<baseContent, variantContent, processed, i, j, removeLines,
                   addLines, usedAddIndices, r, bestMatch>>
    /\ UNCHANGED otherThanLineDiffVars

\* lines 144-148: an entry that is no remove is copied
PassThrough ==
    /\ pc = "scan"
    /\ i <= Len(result)
    /\ result[i].type # "remove"
    /\ processed' = Append(processed, result[i])
    /\ i' = i + 1
    /\ UNCHANGED <<baseContent, variantContent, result, j, removeLines,
                   addLines, usedAddIndices, r, bestMatch, pc>>
    /\ UNCHANGED otherThanLineDiffVars

\* lines 150-167: a run of removes followed by a run of adds
StartPairing ==
    /\ pc = "scan"
    /\ i <= Len(result)
    /\ result[i].type = "remove"
    /\ LET afterRemoves == runEnd(result, i, "remove")
           afterAdds    == runEnd(result, afterRemoves, "add")
       IN  /\ afterAdds > afterRemoves
           /\ removeLines' = indexed(result, i, afterRemoves)
           /\ addLines' = indexed(result, afterRemoves, afterAdds)
           /\ j' = afterAdds
    /\ usedAddIndices' = {}
    /\ r' = 1
    /\ bestMatch' = NoMatch
    /\ pc' = "pair"
    /\ UNCHANGED <<baseContent, variantContent, result, processed, i>>
    /\ UNCHANGED otherThanLineDiffVars

\* lines 150-163, 214-220: a run of removes that no add follows
KeepRemoves ==
    /\ pc = "scan"
    /\ i <= Len(result)
    /\ result[i].type = "remove"
    /\ LET afterRemoves == runEnd(result, i, "remove")
           afterAdds    == runEnd(result, afterRemoves, "add")
       IN  /\ afterAdds = afterRemoves
           /\ removeLines' = indexed(result, i, afterRemoves)
           /\ addLines' = <<>>
           /\ processed' = processed \o linesOf(indexed(result, i, afterRemoves))
           /\ i' = afterAdds
           /\ j' = afterAdds
    /\ UNCHANGED <<baseContent, variantContent, result, usedAddIndices, r,
                   bestMatch, pc>>
    /\ UNCHANGED otherThanLineDiffVars

\* lines 170-204: one remove line of the chunk
PairRemove ==
    /\ pc = "pair"
    /\ r <= Len(removeLines)
    /\ LET removePair == removeLines[r]
           best       == findBestMatch(removePair, addLines, usedAddIndices, 1, NoMatch)
       IN  /\ bestMatch' = best
           /\ IF best.addIdx # 0
              THEN LET baseStr    == removePair.line.base
                       variantStr == addLines[best.addIdx].line.variant
                   IN  IF Truthy(baseStr) /\ Truthy(variantStr)
                       THEN /\ processed' = Append(processed,
                                                   ModifyEntry(baseStr, variantStr))
                            /\ usedAddIndices' = usedAddIndices \cup {best.addIdx}
                       ELSE /\ processed' = Append(processed, removePair.line)
                            /\ UNCHANGED usedAddIndices
              ELSE /\ processed' = Append(processed, removePair.line)
                   /\ UNCHANGED usedAddIndices
    /\ r' = r + 1
    /\ UNCHANGED <<baseContent, variantContent, result, i, j, removeLines,
                   addLines, pc>>
    /\ UNCHANGED otherThanLineDiffVars

\* lines 206-213: the adds no remove took, then on behind the chunk
FlushAdds ==
    /\ pc = "pair"
    /\ r > Len(removeLines)
    /\ processed' = processed \o unmatchedAdds(addLines, usedAddIndices)
    /\ i' = j
    /\ pc' = "scan"
    /\ UNCHANGED <<baseContent, variantContent, result, j, removeLines,
                   addLines, usedAddIndices, r, bestMatch>>
    /\ UNCHANGED otherThanLineDiffVars

\* line 223: return processed
Return ==
    /\ pc = "scan"
    /\ i > Len(result)
    /\ pc' = "done"
    /\ UNCHANGED <<baseContent, variantContent, result, processed, i, j,
                   removeLines, addLines, usedAddIndices, r, bestMatch>>
    /\ UNCHANGED otherThanLineDiffVars

Next ==
    \/ DiffStep
    \/ PassThrough
    \/ StartPairing
    \/ KeepRemoves
    \/ PairRemove
    \/ FlushAdds
    \/ Return

Spec == Init /\ [][Next]_vars

-----------------------------------------------------------------------------
(* diffChars of the npm package `diff` and calculateSimilarity             *)
(* (lines 854-871).  A blob is a sequence of one-character strings.        *)

MaxChars == 3

Alphabet == {"a", "b", "c"}

\* the blobs of at most MaxChars characters
ShortBlobs == UNION {[1..n -> Alphabet] : n \in 0..MaxChars}

\* the blob of n characters c
Repeat(c, n) == [k \in 1..n |-> c]

\* pairs of blobs of the size of a source file: a blob against its first
\* 23 of 40 and 17 of 35 characters, a one-character blob against a long
\* one that starts with it, and blobs that differ in their last character
LongPairs ==
    LET pairs == { <<Repeat("a", 23) \o Repeat("b", 17), Repeat("a", 23)>>,
                   << <<"a">>, <<"a">> \o Repeat("b", 199) >>,
                   <<Repeat("a", 199), Repeat("a", 198) \o <<"b">> >>,
                   <<Repeat("a", 201), Repeat("a", 200) \o <<"b">> >>,
                   << <<"a">>, <<"a">> \o Repeat("b", 198) >>,
                   << <<"a">>, <<"a">> \o Repeat("b", 200) >>,
                   <<Repeat("a", 17) \o Repeat("b", 18), Repeat("a", 17)>> }
    IN  pairs \cup { <<p[2], p[1]>> : p \in pairs }

ContentPairs == (ShortBlobs \X ShortBlobs) \cup LongPairs

\* characterDiff.tokenize: one token per character
chars(value) == [k \in 1..Len(value) |-> <<value[k]>>]

\* diffChars(oldStr, newStr)
diffChars(oldStr, newStr) ==
    diffTokens(removeEmpty(chars(oldStr)), removeEmpty(chars(newStr)))

RECURSIVE matchingCharsOf(_)
\* the loop over changes: matchingChars, the lengths of the values that are
\* neither added nor removed, added up
matchingCharsOf(changes) ==
    IF changes = <<>> THEN 0
    ELSE LET change == Head(changes)
         IN  (IF ~change.added /\ ~change.removed THEN Len(change.value) ELSE 0)
             + matchingCharsOf(Tail(changes))

RECURSIVE totalCharsOf(_)
\* the lengths of all values of the changes, added up
totalCharsOf(changes) ==
    IF changes = <<>> THEN 0
    ELSE Len(Head(changes).value) + totalCharsOf(Tail(changes))

\* faulty variant of roundPercent: Math.ceil
roundPercentUp(num, den) == (100 * num + den - 1) \div den

\* faulty variant of roundPercent: Math.floor
roundPercentDown(num, den) == (100 * num) \div den

(* The arithmetic of line 870 is that of IEEE 754 doubles.  A positive     *)
(* double is modelled as [bits, exp]: bits is its significand of 53 binary *)
(* digits, most significant first and starting with 1, and its value is    *)
(* the number bits denotes times 2^exp.                                    *)

RECURSIVE toNat(_)
\* the number a sequence of binary digits denotes
toNat(bits) ==
    IF bits = <<>> THEN 0
    ELSE 2 * toNat(SubSeq(bits, 1, Len(bits) - 1)) + bits[Len(bits)]

\* bits plus one in the last place; all ones give 1 0 ... 0 and one place
\* more in the exponent
increment(d) ==
    IF \A k \in 1..Len(d.bits) : d.bits[k] = 1
    THEN [bits |-> [k \in 1..Len(d.bits) |-> IF k = 1 THEN 1 ELSE 0],
          exp  |-> d.exp + 1]
    ELSE LET last == CHOOSE k \in 1..Len(d.bits) :
                        /\ d.bits[k] = 0
                        /\ \A l \in (k + 1)..Len(d.bits) : d.bits[l] = 1
         IN  [bits |-> [k \in 1..Len(d.bits) |->
                           IF k < last THEN d.bits[k]
                           ELSE IF k = last THEN 1 ELSE 0],
              exp  |-> d.exp]

\* round to nearest, ties to even: the double nearest to the number that
\* the 54 or more digits of bits denote times 2^exp
roundToDouble(bits, exp) ==
    LET kept   == [bits |-> SubSeq(bits, 1, 53), exp |-> exp + Len(bits) - 53]
        guard  == bits[54]
        sticky == \E k \in 55..Len(bits) : bits[k] = 1
    IN  IF guard = 1 /\ (sticky \/ bits[53] = 1) THEN increment(kept) ELSE kept

RECURSIVE normalize(_, _, _)
\* the least shift s with den <= num * 2^s, and num * 2^s
normalize(num, den, s) ==
    IF num >= den THEN [num |-> num, shift |-> s]
    ELSE normalize(2 * num, den, s + 1)

RECURSIVE quotientBits(_, _, _)
\* the next n binary digits of the quotient by long division, and after
\* them one digit that tells whether a remainder is left
quotientBits(rem, den, n) ==
    IF n = 0 THEN <<IF rem > 0 THEN 1 ELSE 0>>
    ELSE LET twice == 2 * rem
             bit   == IF twice >= den THEN 1 ELSE 0
         IN  <<bit>> \o quotientBits(twice - bit * den, den, n - 1)

\* num / den for 0 < num <= den
divide(num, den) ==
    LET n == normalize(num, den, 0)
    IN  roundToDouble(<<1>> \o quotientBits(n.num - den, den, 53),
                      -(54 + n.shift))

RECURSIVE productBits(_, _, _)
\* the binary digits of 100 times the number bits denotes, least significant
\* first, from place k on: 100 = 2^6 + 2^5 + 2^2
productBits(bits, k, carry) ==
    IF k > Len(bits) + 6 THEN <<>>
    ELSE LET at(place) == IF place >= 0 /\ place < Len(bits)
                          THEN bits[Len(bits) - place] ELSE 0
             sum == at(k - 2) + at(k - 5) + at(k - 6) + carry
         IN  <<sum % 2>> \o productBits(bits, k + 1, sum \div 2)

reverse(seq) == [k \in 1..Len(seq) |-> seq[Len(seq) + 1 - k]]

\* d * 100
timesHundred(d) ==
    LET digits == reverse(productBits(d.bits, 0, 0))
        first  == CHOOSE k \in 1..Len(digits) :
                     /\ digits[k] = 1
                     /\ \A l \in 1..(k - 1) : digits[l] = 0
    IN  roundToDouble(SubSeq(digits, first, Len(digits)), d.exp)

\* Math.round(d): the nearest integer, a half rounded up
mathRound(d) ==
    LET whole == 53 + d.exp
    IN  IF whole < 0 THEN 0
        ELSE IF whole = 0 THEN 1
        ELSE IF whole >= 53 THEN toNat(d.bits)
        ELSE toNat(SubSeq(d.bits, 1, whole)) + d.bits[whole + 1]

\* Math.round((num / den) * 100) for 0 <= num <= den, 0 < den
roundPercent(num, den) ==
    IF num = 0 THEN 0 ELSE mathRound(timesHundred(divide(num, den)))

\* faulty variant of calculateSimilarity: the test for an empty blob comes
\* before the test for equal blobs
calculateSimilarityEmptyFirst(content1, content2) ==
    IF ~Truthy(content1) \/ ~Truthy(content2) THEN 0
    ELSE IF content1 = content2 THEN 100
    ELSE LET changes   == diffChars(content1, content2)
             maxLength == Max(Len(content1), Len(content2))
         IN  IF maxLength > 0
             THEN roundPercent(matchingCharsOf(changes), maxLength)
             ELSE 0

\* faulty variant of calculateSimilarity: the matched characters are
\* divided by the length of all changes, which counts a difference twice
calculateSimilarityOfTotal(content1, content2) ==
    IF content1 = content2 THEN 100
    ELSE IF ~Truthy(content1) \/ ~Truthy(content2) THEN 0
    ELSE LET changes    == diffChars(content1, content2)
             totalChars == totalCharsOf(changes)
         IN  IF totalChars > 0
             THEN roundPercent(matchingCharsOf(changes), totalChars)
             ELSE 0

calculateSimilarity(content1, content2) ==
    IF content1 = content2 THEN 100
    ELSE IF ~Truthy(content1) \/ ~Truthy(content2) THEN 0
    ELSE LET changes   == diffChars(content1, content2)
             maxLength == Max(Len(content1), Len(content2))
         IN  IF maxLength > 0
             THEN roundPercent(matchingCharsOf(changes), maxLength)
             ELSE 0

SimilarityInit ==
    /\ \E pair \in ContentPairs :
          /\ argContent1 = pair[1]
          /\ argContent2 = pair[2]
    /\ contentSimilarity = 0
    /\ pc = "calculateSimilarity"
    /\ OnlySimilarity

\* lines 854-871: the call returns
CalculateSimilarity ==
    /\ pc = "calculateSimilarity"
    /\ contentSimilarity' = calculateSimilarity(argContent1, argContent2)
    /\ pc' = "done"
    /\ UNCHANGED <<argContent1, argContent2, otherThanSimilarityVars>>

SimilarityNext == CalculateSimilarity

SimilaritySpec == SimilarityInit /\ [][SimilarityNext]_vars

-----------------------------------------------------------------------------
(* A call of calculateStringSimilarity (lines 226-237) on two strings: two *)
(* blobs of at most MaxChars characters, or two of the lines the texts of  *)
(* computeLineDiff are built from.                                         *)

StringPairs ==
    (ShortBlobs \X ShortBlobs)
        \cup ((BaseLineSet \cup VariantLineSet) \X (BaseLineSet \cup VariantLineSet))

StringSimilarityInit ==
    /\ \E pair \in StringPairs :
          /\ argStr1 = pair[1]
          /\ argStr2 = pair[2]
    /\ stringSimilarity = Fraction(0, 1)
    /\ pc = "calculateStringSimilarity"
    /\ OnlyStringSimilarity

\* lines 226-237: the call returns
CalculateStringSimilarity ==
    /\ pc = "calculateStringSimilarity"
    /\ stringSimilarity' = calculateStringSimilarity(argStr1, argStr2)
    /\ pc' = "done"
    /\ UNCHANGED <<argStr1, argStr2, otherThanStringSimilarityVars>>

StringSimilarityNext == CalculateStringSimilarity

StringSimilaritySpec == StringSimilarityInit /\ [][StringSimilarityNext]_vars

-----------------------------------------------------------------------------
(* The handler of GET /api/suggest-mappings (lines 873-961).  A file map   *)
(* is a Map from relative path to content in its order of iteration: a     *)
(* sequence of [path, content] with distinct paths.  files[k] is the map   *)
(* that reading the test, solution and template directories of             *)
(* config.variants[k] yields; variant 1 is the base variant.  A label is   *)
(* a sequence of characters.                                               *)

MaxFiles == 2

\* line 80: an exercise has exactly three variants
VariantCount == 3

\* the default of the handler in src/server/src/index.ts, line 645
DefaultThresholdOfIndexTs == 30

DefaultThreshold == 50

BasePaths == {"A.java", "B.java", "C.java"}

VariantPaths == {"C.java", "D.java"}

\* a file of 35 characters and the file of its first 17 characters: their
\* similarity is 49
longContent == Repeat("a", 17) \o Repeat("b", 18)

shortContent == Repeat("a", 17)

BaseContents == {longContent, shortContent}

VariantContents == {shortContent}

FileMaps(paths, contents) ==
    UNION { { fileMap \in [1..n -> [path : paths, content : contents]] :
                \A k, l \in 1..n : k < l => fileMap[k].path # fileMap[l].path }
            : n \in 0..MaxFiles }

\* line 63: the label of a variant is not empty; the slug of "!" is empty
Labels == {<<"X">>, <<"!">>}

\* lines 333-359: what readMultiExerciseConfig returns has passed
\* multiExerciseConfigSchema or is the default, and activeExerciseIndex is
\* within bounds: the active exercise exists and has VariantCount variants
\* with labels; the base variant is labelled B here
Configs ==
    { [present |-> TRUE, variants |-> <<[label |-> <<"B">>]>> \o others] :
        others \in [1..(VariantCount - 1) -> [label : Labels]] }

\* the parameter is missing, or is 49 or x
ThresholdParams ==
    {NoParam} \cup { [given |-> TRUE, value |-> v] :
                       v \in {<<"4", "9">>, <<"x">>} }

Digits == <<"0", "1", "2", "3", "4", "5", "6", "7", "8", "9">>

\* String(n) for 0 <= n <= 9
digitOf(n) == <<Digits[n + 1]>>

\* the value of a decimal digit
valueOf(c) == CHOOSE n \in 0..9 : Digits[n + 1] = c

RECURSIVE decimal(_)
decimal(str) ==
    IF str = <<>> THEN 0
    ELSE 10 * decimal(SubSeq(str, 1, Len(str) - 1)) + valueOf(str[Len(str)])

\* Number(str) for a non-empty string without white space: the number a
\* string of decimal digits denotes; a string with a letter gives NaN
Number(str) ==
    IF \A k \in 1..Len(str) : \E n \in 1..10 : Digits[n] = str[k]
    THEN [nan |-> FALSE, value |-> decimal(str)]
    ELSE NotANumber

\* line 876: thresholdParam ? Number(thresholdParam) : 50
thresholdOf(param) ==
    IF param.given /\ param.value # <<>>
    THEN Number(param.value)
    ELSE [nan |-> FALSE, value |-> DefaultThreshold]

LowerAlnum ==
    {"a", "b", "c", "d", "e", "f", "g", "h", "i", "j", "k", "l", "m", "n", "o",
     "p", "q", "r", "s", "t", "u", "v", "w", "x", "y", "z",
     "0", "1", "2", "3", "4", "5", "6", "7", "8", "9"}

\* toLowerCase on the characters of the labels of the model
lowerCase(c) ==
    IF c = "X" THEN "x" ELSE IF c = "B" THEN "b" ELSE IF c = "V" THEN "v" ELSE c

RECURSIVE dashed(_)
\* replace(/[^a-z0-9]+/g, '-')
dashed(str) ==
    IF str = <<>> THEN <<>>
    ELSE IF Head(str) \in LowerAlnum THEN <<Head(str)>> \o dashed(Tail(str))
    ELSE LET rest == dashed(Tail(str))
         IN  IF Len(str) > 1 /\ str[2] \notin LowerAlnum THEN rest
             ELSE <<"-">> \o rest

RECURSIVE stripped(_)
\* replace(/^-+|-+$/g, ''); trim() before it only removes what becomes a
\* dash at either end
stripped(str) ==
    IF str = <<>> THEN <<>>
    ELSE IF Head(str) = "-" THEN stripped(Tail(str))
    ELSE IF str[Len(str)] = "-" THEN stripped(SubSeq(str, 1, Len(str) - 1))
    ELSE str

\* lines 292-299
slugify(input, fallback) ==
    LET slug == stripped(dashed([k \in 1..Len(input) |-> lowerCase(input[k])]))
    IN  IF slug # <<>> THEN slug ELSE fallback

\* the directory name of config.variants[k]: lines 895 and 918
slugOfVariant(k) ==
    slugify(config.variants[k].label,
            <<"v", "a", "r", "i", "a", "n", "t", "-">> \o digitOf(k))

\* line 944: variant.label || `Variant ${idx + 2}`
labelOfVariant(k) ==
    IF config.variants[k].label # <<>>
    THEN config.variants[k].label
    ELSE <<"V", "a", "r", "i", "a", "n", "t", " ">> \o digitOf(k)

\* Map.has
has(fileMap, path) == \E k \in 1..Len(fileMap) : fileMap[k].path = path

\* faulty variant of similarEnough: the threshold is strict
similarEnoughStrict(similarity) ==
    ~threshold.nan /\ similarity > threshold.value

\* line 940: similarity >= threshold, false when threshold is NaN
similarEnough(similarity) ==
    ~threshold.nan /\ similarity >= threshold.value

\* faulty variant of absentFromVariant: the test is forgotten
absentFromVariantUntested(variantFileMap, baseFile) == TRUE

\* line 936: !variantFileMap.has(baseFile)
absentFromVariant(variantFileMap, baseFile) == ~has(variantFileMap, baseFile)

\* lines 938-947: the suggestion pushed for a pair of files, if any
suggestionOf(baseEntry, variantEntry, variantLabel) ==
    LET similarity == calculateSimilarity(baseEntry.content, variantEntry.content)
    IN  IF similarEnough(similarity)
        THEN <<[baseFile     |-> baseEntry.path,
                variantFile  |-> variantEntry.path,
                variantLabel |-> variantLabel,
                similarity   |-> similarity]>>
        ELSE <<>>

RECURSIVE forBaseFiles(_, _, _, _)
\* lines 935-949: the loop over baseFileMap from position k on, for one file
\* of the variant
forBaseFiles(variantFileMap, variantEntry, variantLabel, k) ==
    IF k > Len(baseFileMap) THEN <<>>
    ELSE (IF absentFromVariant(variantFileMap, baseFileMap[k].path)
          THEN suggestionOf(baseFileMap[k], variantEntry, variantLabel)
          ELSE <<>>)
         \o forBaseFiles(variantFileMap, variantEntry, variantLabel, k + 1)

RECURSIVE forVariantFiles(_, _, _)
\* lines 932-951: the loop over variantFileMap from position k on
forVariantFiles(variantFileMap, variantLabel, k) ==
    IF k > Len(variantFileMap) THEN <<>>
    ELSE (IF ~has(baseFileMap, variantFileMap[k].path)
          THEN forBaseFiles(variantFileMap, variantFileMap[k], variantLabel, 1)
          ELSE <<>>)
         \o forVariantFiles(variantFileMap, variantLabel, k + 1)

RECURSIVE baseFilesFirstInner(_, _, _, _)
baseFilesFirstInner(variantFileMap, baseEntry, variantLabel, k) ==
    IF k > Len(variantFileMap) THEN <<>>
    ELSE (IF ~has(baseFileMap, variantFileMap[k].path)
          THEN suggestionOf(baseEntry, variantFileMap[k], variantLabel)
          ELSE <<>>)
         \o baseFilesFirstInner(variantFileMap, baseEntry, variantLabel, k + 1)

RECURSIVE baseFilesFirstOuter(_, _, _)
baseFilesFirstOuter(variantFileMap, variantLabel, k) ==
    IF k > Len(baseFileMap) THEN <<>>
    ELSE (IF absentFromVariant(variantFileMap, baseFileMap[k].path)
          THEN baseFilesFirstInner(variantFileMap, baseFileMap[k], variantLabel, 1)
          ELSE <<>>)
         \o baseFilesFirstOuter(variantFileMap, variantLabel, k + 1)

\* faulty variant of suggestionsOfVariant: the loop over the files of the
\* base is the outer one
suggestionsBaseFilesFirst(variantFileMap, variantLabel) ==
    baseFilesFirstOuter(variantFileMap, variantLabel, 1)

\* lines 931-951: the suggestions pushed for one variant
suggestionsOfVariant(variantFileMap, variantLabel) ==
    forVariantFiles(variantFileMap, variantLabel, 1)

\* faulty variant of insertStable: an element goes before its equals
insertBeforeEquals(sorted, s) ==
    LET before == CHOOSE n \in 0..Len(sorted) :
                     /\ \A k \in 1..n : sorted[k].similarity > s.similarity
                     /\ n < Len(sorted) => sorted[n + 1].similarity <= s.similarity
    IN  SubSeq(sorted, 1, before) \o <<s>> \o SubSeq(sorted, before + 1, Len(sorted))

\* the position at which a stable sort puts one more element: behind the
\* elements that do not compare greater (b.similarity - a.similarity <= 0)
insertStable(sorted, s) ==
    LET before == CHOOSE n \in 0..Len(sorted) :
                     /\ \A k \in 1..n : sorted[k].similarity >= s.similarity
                     /\ n < Len(sorted) => sorted[n + 1].similarity < s.similarity
    IN  SubSeq(sorted, 1, before) \o <<s>> \o SubSeq(sorted, before + 1, Len(sorted))

RECURSIVE sortBySimilarity(_)
\* line 955: suggestions.sort((a, b) => b.similarity - a.similarity);
\* Array.prototype.sort is stable
sortBySimilarity(list) ==
    IF list = <<>> THEN <<>>
    ELSE insertStable(sortBySimilarity(SubSeq(list, 1, Len(list) - 1)),
                      list[Len(list)])

\* the first variant whose directory is the directory of variant k
firstWithSlug(k) ==
    CHOOSE l \in 1..k :
        /\ slugOfVariant(l) = slugOfVariant(k)
        /\ \A m \in 1..(l - 1) : slugOfVariant(m) # slugOfVariant(k)

SuggestInit ==
    /\ thresholdParam \in ThresholdParams
    /\ config \in Configs
    /\ \E base \in FileMaps(BasePaths, BaseContents),
          others \in [2..VariantCount -> FileMaps(VariantPaths, VariantContents)] :
          files = [k \in 1..Len(config.variants) |->
                      IF firstWithSlug(k) = 1 THEN base
                      ELSE others[firstWithSlug(k)]]
    /\ threshold = NotANumber
    /\ baseFileMap = <<>>
    /\ idx = 0
    /\ suggestions = <<>>
    /\ response = NoResponse
    /\ pc = "suggest"
    /\ OnlySuggest

\* a variant of newSuggestions in which the array is declared outside the
\* handler, and is the array of the request before
suggestionsOfLastRequest == suggestions

\* lines 897-902: const suggestions = []
newSuggestions == <<>>

\* lines 875-914: the threshold and the files of the base variant; the
\* tests at lines 881 and 890 cannot succeed on what readMultiExerciseConfig
\* returns
ReadBase ==
    /\ pc = "suggest"
    /\ config.present
    /\ config.variants # <<>>
    /\ threshold' = thresholdOf(thresholdParam)
    /\ baseFileMap' = files[1]
    /\ suggestions' = newSuggestions
    /\ idx' = 0
    /\ pc' = "variants"
    /\ UNCHANGED <<thresholdParam, config, files, response, otherThanSuggestVars>>

\* lines 917-952: one more variant is read and compared with the base
CompareVariant ==
    /\ pc = "variants"
    /\ idx < Len(config.variants) - 1
    /\ suggestions' = suggestions \o
                         suggestionsOfVariant(files[idx + 2], labelOfVariant(idx + 2))
    /\ idx' = idx + 1
    /\ UNCHANGED <<thresholdParam, config, files, threshold, baseFileMap,
                   response, pc, otherThanSuggestVars>>

\* lines 954-957: the sorted suggestions are sent; `suggestions` keeps the
\* order of the pushes here, response.suggestions is the array after sort
Respond ==
    /\ pc = "variants"
    /\ idx = Len(config.variants) - 1
    /\ response' = [status |-> 200, ok |-> TRUE,
                    suggestions |-> sortBySimilarity(suggestions)]
    /\ pc' = "done"
    /\ UNCHANGED <<thresholdParam, config, files, threshold, baseFileMap, idx,
                   suggestions, otherThanSuggestVars>>

SuggestNext ==
    \/ ReadBase
    \/ CompareVariant
    \/ Respond

SuggestSpec == SuggestInit /\ [][SuggestNext]_vars

-----------------------------------------------------------------------------
(* The same call made a second time: computeLineDiff and                   *)
(* calculateSimilarity with the same arguments, GET /api/suggest-mappings  *)
(* with the same threshold on the same configuration and the same files.   *)
(* The variables of a call are locals of its function (lines 105-224,      *)
(* 854-871, 873-961): the second call starts with fresh ones.              *)

\* the mapping suggester is called with threshold 49 on variants of two
\* unrelated directories
RepeatInit ==
    \/ Init /\ baseContent # <<>>
    \/ SimilarityInit /\ argContent1 # <<>>
    \/ /\ SuggestInit
       /\ thresholdParam.given
       /\ thresholdParam.value = <<"4", "9">>
       /\ slugOfVariant(2) # slugOfVariant(3)

\* computeLineDiff has returned and is called again
LineDiffAgain ==
    /\ pc = "done"
    /\ calls = 1
    /\ baseContent # <<>>
    /\ previous' = [returned |-> TRUE, value |-> processed]
    /\ calls' = 2
    /\ result' = <<>>
    /\ processed' = <<>>
    /\ i' = 1
    /\ j' = 1
    /\ removeLines' = <<>>
    /\ addLines' = <<>>
    /\ usedAddIndices' = {}
    /\ r' = 1
    /\ bestMatch' = NoMatch
    /\ pc' = "diff"
    /\ UNCHANGED <<baseContent, variantContent, similarityVars,
                   stringSimilarityVars, suggestVars, laterVars>>

\* calculateSimilarity has returned and is called again
SimilarityAgain ==
    /\ pc = "done"
    /\ calls = 1
    /\ argContent1 # <<>>
    /\ previous' = [returned |-> TRUE, value |-> contentSimilarity]
    /\ calls' = 2
    /\ contentSimilarity' = 0
    /\ pc' = "calculateSimilarity"
    /\ UNCHANGED <<argContent1, argContent2, lineDiffVars,
                   stringSimilarityVars, suggestVars, laterVars>>

\* the request has been answered and is made again; `suggestions` is
\* declared anew by the handler (ReadBase)
SuggestAgain ==
    /\ pc = "done"
    /\ calls = 1
    /\ config.present
    /\ previous' = [returned |-> TRUE, value |-> response]
    /\ calls' = 2
    /\ threshold' = NotANumber
    /\ baseFileMap' = <<>>
    /\ idx' = 0
    /\ response' = NoResponse
    /\ pc' = "suggest"
    /\ UNCHANGED <<thresholdParam, config, files, suggestions, lineDiffVars,
                   similarityVars, stringSimilarityVars, laterVars>>

RepeatNext ==
    \/ Next
    \/ SimilarityNext
    \/ SuggestNext
    \/ LineDiffAgain
    \/ SimilarityAgain
    \/ SuggestAgain

RepeatSpec == RepeatInit /\ [][RepeatNext]_vars

-----------------------------------------------------------------------------
(* normalizeTargetFolder (lines 301-316) and the handler of POST           *)
(* /api/download (lines 430-529).  A string is a sequence of characters;   *)
(* an absolute path is the sequence of its segments, the root is <<>>.     *)

MaxRaw == 5

RawChars == {"/", ".", "d", " "}

\* req.body.targetFolder
RawFolders == UNION {[1..n -> RawChars] : n \in 0..MaxRaw}

\* lines 15-17: the directory /d
ALLOWED_BASE_DIR == <<<<"d">>>>

RECURSIVE trim(_)
\* String.prototype.trim
trim(str) ==
    IF str = <<>> THEN <<>>
    ELSE IF Head(str) = " " THEN trim(Tail(str))
    ELSE IF str[Len(str)] = " " THEN trim(SubSeq(str, 1, Len(str) - 1))
    ELSE str

\* String.prototype.startsWith
startsWith(str, prefix) ==
    Len(str) >= Len(prefix) /\ SubSeq(str, 1, Len(prefix)) = prefix

RECURSIVE segmentsOf(_)
\* the strings between the slashes of a string
segmentsOf(str) ==
    IF \A k \in 1..Len(str) : str[k] # "/" THEN <<str>>
    ELSE LET slash == CHOOSE k \in 1..Len(str) :
                         str[k] = "/" /\ \A l \in 1..(k - 1) : str[l] # "/"
         IN  <<SubSeq(str, 1, slash - 1)>>
                \o segmentsOf(SubSeq(str, slash + 1, Len(str)))

RECURSIVE normalizePath(_, _)
\* the segments of a path below an absolute path: empty segments and "."
\* are dropped, ".." goes up and stays at the root
normalizePath(absolute, segments) ==
    IF segments = <<>> THEN absolute
    ELSE LET segment == Head(segments)
         IN  IF segment = <<>> \/ segment = <<".">>
             THEN normalizePath(absolute, Tail(segments))
             ELSE IF segment = <<".", ".">>
             THEN normalizePath(IF absolute = <<>> THEN <<>>
                                ELSE SubSeq(absolute, 1, Len(absolute) - 1),
                                Tail(segments))
             ELSE normalizePath(Append(absolute, segment), Tail(segments))

\* path.resolve(from, to) for an absolute path `from`
resolve(from, to) ==
    IF startsWith(to, <<"/">>)
    THEN normalizePath(<<>>, segmentsOf(to))
    ELSE normalizePath(from, segmentsOf(to))

\* path.join(from, segment) for an absolute path `from`
joinPath(from, segment) == normalizePath(from, segmentsOf(segment))

RECURSIVE slashed(_)
\* the segments with a slash between them
slashed(segments) ==
    IF segments = <<>> THEN <<>>
    ELSE IF Len(segments) = 1 THEN segments[1]
    ELSE segments[1] \o <<"/">> \o slashed(Tail(segments))

\* path.relative(from, to) for two absolute paths
relative(from, to) ==
    LET common == CHOOSE n \in 0..Min(Len(from), Len(to)) :
                     /\ SubSeq(from, 1, n) = SubSeq(to, 1, n)
                     /\ n < Min(Len(from), Len(to)) => from[n + 1] # to[n + 1]
    IN  slashed([k \in 1..(Len(from) - common) |-> <<".", ".">>]
                   \o SubSeq(to, common + 1, Len(to)))

\* faulty variant of outsideBase: only the parent directory is refused
outsideBaseParentOnly(rel) == rel = <<".", ".">>

\* line 310: relative.startsWith('..')
outsideBase(rel) == startsWith(rel, <<".", ".">>)

\* lines 307, 399-401, 435-437: the folder without its leading slash
withoutLeadingSlash(cleaned) ==
    IF startsWith(cleaned, <<"/">>) THEN Tail(cleaned) ELSE cleaned

\* lines 301-316: the path returned, or the error thrown
normalizeTargetFolder(raw) ==
    LET cleaned == trim(raw)
        absolute == resolve(ALLOWED_BASE_DIR, withoutLeadingSlash(cleaned))
    IN  IF cleaned = <<>>
        THEN [threw |-> TRUE, message |-> "Target folder is empty"]
        ELSE IF outsideBase(relative(ALLOWED_BASE_DIR, absolute))
        THEN [threw |-> TRUE, message |-> "Target folder must be inside /d"]
        ELSE [threw |-> FALSE, absolute |-> absolute]

\* a variant of the payload without repositories and without notes
blankVariant(label) ==
    [label |-> label, testRepo |-> "", solutionRepo |-> "", templateRepo |-> "",
     markdown |-> <<>>]

\* the variants of a payload: none has a repository, or the first has a
\* test repository and the second a solution repository and notes
PayloadVariants ==
    { <<blankVariant(<<"B">>), blankVariant(<<"X">>), blankVariant(<<"!">>)>>,
      <<[blankVariant(<<"B">>) EXCEPT !.testRepo = "https://git/b-test"],
        [blankVariant(<<"X">>) EXCEPT !.solutionRepo = "https://git/x-solution",
                                      !.markdown = <<"n", "o", "t", "e">>],
        blankVariant(<<"!">>)>> }

ExerciseNames == {<<"X">>, <<".", ".">>}

\* the file holds one exercise, named X, and no review
StoredAtFirst ==
    [exercises |-> <<[targetFolder |-> <<"d">>,
                      exerciseName |-> <<"X">>,
                      variants |-> <<blankVariant(<<"B">>), blankVariant(<<"X">>),
                                     blankVariant(<<"!">>)>>]>>,
     activeExerciseIndex |-> 0,
     reviewStatuses |-> <<>>]

DownloadInit ==
    /\ payload \in [targetFolder : RawFolders,
                    exerciseName : ExerciseNames,
                    variants : PayloadVariants]
    /\ stored = StoredAtFirst
    /\ targetRoot = <<>>
    /\ index = 0
    /\ ensured = {}
    /\ cloned = <<>>
    /\ notes = {}
    /\ events = <<>>
    /\ downloadResponse = NoResponse
    /\ pc = "download"
    /\ OnlyDownload

\* lines 432-433 and 523-525: payloadSchema refuses an empty target folder
RejectPayload ==
    /\ pc = "download"
    /\ payload.targetFolder = <<>>
    /\ downloadResponse' = [status |-> 400, ok |-> FALSE]
    /\ pc' = "done"
    /\ UNCHANGED <<stored, payload, targetRoot, index, ensured, cloned, notes,
                   events, otherThanDownloadVars>>

\* lines 432-433 and 527: normalizeTargetFolder throws
RejectTargetFolder ==
    /\ pc = "download"
    /\ payload.targetFolder # <<>>
    /\ normalizeTargetFolder(payload.targetFolder).threw
    /\ downloadResponse' =
          [status |-> 500, ok |-> FALSE,
           error |-> normalizeTargetFolder(payload.targetFolder).message]
    /\ pc' = "done"
    /\ UNCHANGED <<stored, payload, targetRoot, index, ensured, cloned, notes,
                   events, otherThanDownloadVars>>

\* lines 432-442: the target folder is accepted and made
AcceptTargetFolder ==
    /\ pc = "download"
    /\ payload.targetFolder # <<>>
    /\ ~normalizeTargetFolder(payload.targetFolder).threw
    /\ targetRoot' = normalizeTargetFolder(payload.targetFolder).absolute
    /\ ensured' = ensured \cup {targetRoot'}
    /\ pc' = "config"
    /\ UNCHANGED <<stored, payload, index, cloned, notes, events,
                   downloadResponse, otherThanDownloadVars>>

\* lines 438-442
normalizedPayload ==
    [targetFolder |-> withoutLeadingSlash(trim(payload.targetFolder)),
     exerciseName |-> trim(payload.exerciseName),
     variants     |-> payload.variants]

\* lines 445-457: the exercise replaces the stored exercise of its name, or
\* is added and made the active one
UpdateConfig ==
    /\ pc = "config"
    /\ LET found == {k \in 1..Len(stored.exercises) :
                        stored.exercises[k].exerciseName
                           = normalizedPayload.exerciseName}
       IN  IF found # {}
           THEN LET exerciseIndex == CHOOSE k \in found : \A l \in found : k <= l
                IN  stored' = [stored EXCEPT
                                 !.exercises[exerciseIndex] = normalizedPayload]
           ELSE stored' = [stored EXCEPT
                             !.exercises = Append(@, normalizedPayload),
                             !.activeExerciseIndex = Len(stored.exercises)]
    /\ pc' = "root"
    /\ UNCHANGED <<payload, targetRoot, index, ensured, cloned, notes, events,
                   downloadResponse, otherThanDownloadVars>>

\* lines 467-468
exerciseRoot ==
    joinPath(targetRoot,
             slugify(normalizedPayload.exerciseName,
                     <<"e", "x", "e", "r", "c", "i", "s", "e">>))

\* lines 459-469
MakeExerciseRoot ==
    /\ pc = "root"
    /\ ensured' = ensured \cup {exerciseRoot}
    /\ pc' = "clone"
    /\ UNCHANGED <<stored, payload, targetRoot, index, cloned, notes, events,
                   downloadResponse, otherThanDownloadVars>>

\* lines 472-473
variantRoot(k) ==
    joinPath(exerciseRoot,
             slugify(payload.variants[k].label,
                     <<"v", "a", "r", "i", "a", "n", "t", "-">> \o digitOf(k)))

\* lines 476-484: the repositories of a variant, with their directories
reposOf(k) ==
    <<[url |-> payload.variants[k].testRepo, label |-> <<"t", "e", "s", "t">>],
      [url |-> payload.variants[k].solutionRepo,
       label |-> <<"s", "o", "l", "u", "t", "i", "o", "n">>],
      [url |-> payload.variants[k].templateRepo,
       label |-> <<"t", "e", "m", "p", "l", "a", "t", "e">>]>>

\* lines 484-512: the event of one repository; git.clone succeeds or fails
eventOf(k, repo, success) ==
    [variant     |-> payload.variants[k].label,
     repoType    |-> repo.label,
     destination |-> joinPath(variantRoot(k), repo.label),
     success     |-> IF repo.url = "" THEN TRUE ELSE success,
     message     |-> IF repo.url = "" THEN "No URL provided, skipped"
                     ELSE IF success THEN "Cloned successfully"
                     ELSE "clone failed"]

\* the destinations of the repositories of variant k that have a URL
destinationsOf(k) ==
    LET withUrl == SelectSeq(reposOf(k), LAMBDA repo : repo.url # "")
    IN  [n \in 1..Len(withUrl) |-> joinPath(variantRoot(k), withUrl[n].label)]

\* lines 471-519: the repositories of one more variant are cloned and its
\* notes are written
DownloadVariant ==
    /\ pc = "clone"
    /\ index < Len(payload.variants)
    /\ \E success \in [1..3 -> BOOLEAN] :
          /\ \A n \in 1..3 : reposOf(index + 1)[n].url = "" => success[n]
          /\ events' = events \o [n \in 1..3 |->
                           eventOf(index + 1, reposOf(index + 1)[n], success[n])]
    /\ ensured' = ensured \cup {variantRoot(index + 1)}
    /\ cloned' = cloned \o destinationsOf(index + 1)
    /\ notes' = IF trim(payload.variants[index + 1].markdown) # <<>>
                THEN notes \cup {joinPath(variantRoot(index + 1),
                                          <<"n", "o", "t", "e", "s", ".", "m", "d">>)}
                ELSE notes
    /\ index' = index + 1
    /\ UNCHANGED <<stored, payload, targetRoot, downloadResponse, pc,
                   otherThanDownloadVars>>

\* line 521
DownloadRespond ==
    /\ pc = "clone"
    /\ index = Len(payload.variants)
    /\ downloadResponse' =
          [status |-> 200, ok |-> TRUE,
           targetRoot |-> normalizedPayload.targetFolder,
           exerciseRoot |-> exerciseRoot,
           exerciseName |-> normalizedPayload.exerciseName,
           events |-> events]
    /\ pc' = "done"
    /\ UNCHANGED <<stored, payload, targetRoot, index, ensured, cloned, notes,
                   events, otherThanDownloadVars>>

DownloadNext ==
    \/ RejectPayload
    \/ RejectTargetFolder
    \/ AcceptTargetFolder
    \/ UpdateConfig
    \/ MakeExerciseRoot
    \/ DownloadVariant
    \/ DownloadRespond

DownloadSpec == DownloadInit /\ [][DownloadNext]_vars

-----------------------------------------------------------------------------
(* The handler of POST /api/review-status (lines 972-1031).  A review is   *)
(* [filePath, variantLabel, compareType, status]; the filePath of a stored *)
(* review is `${exerciseName}:${filePath}`, or the bare path in a list     *)
(* written before the prefix was introduced (lines 979 and 989).           *)

MaxReviews == 3

MaxRequests == 3

\* lines 85 and 1000: the statuses a stored review has
StoredStatuses == {"correct", "needs-attention"}

\* the filePath of a stored review: f without prefix, X:f and X:g
StoredPaths == {<<"f">>, <<"X", ":", "f">>, <<"X", ":", "g">>}

\* lines 86-91 and 96: the review lists the file may hold; no two reviews
\* of a list have the same filePath
ReviewLists ==
    UNION { { list \in [1..n -> [filePath : StoredPaths,
                                 variantLabel : {"V"},
                                 compareType : {"test"},
                                 status : StoredStatuses]] :
                \A k, l \in 1..n : k < l => list[k].filePath # list[l].filePath }
            : n \in 0..MaxReviews }

\* lines 964-970: the bodies of the requests; the status "done" is not one
\* of reviewStatusSchema
ReviewBodies ==
    [given : {TRUE},
     exerciseName : {<<"X">>},
     filePath : {<<"f">>, <<"g">>},
     variantLabel : {"V"},
     compareType : {"test"},
     status : {"unchecked", "correct", "needs-attention", "done"}]

\* line 980
fullKeyOf(body) == body.exerciseName \o <<":">> \o body.filePath

\* Array.prototype.findIndex, counting from 1; 0 when there is none
findIndex(list, Test(_)) ==
    IF \E k \in 1..Len(list) : Test(list[k])
    THEN CHOOSE k \in 1..Len(list) :
             Test(list[k]) /\ \A l \in 1..(k - 1) : ~Test(list[l])
    ELSE 0

\* String.prototype.includes for one character
includes(str, c) == \E k \in 1..Len(str) : str[k] = c

\* list.splice(k - 1, 1): nothing is removed behind the end of the list
spliceOne(list, k) ==
    IF k > Len(list) THEN list
    ELSE SubSeq(list, 1, k - 1) \o SubSeq(list, k + 1, Len(list))

\* faulty variant of assign: the review is pushed
assignByPush(list, k, review) == Append(list, review)

\* list[k - 1] = review, for k - 1 <= list.length
assign(list, k, review) ==
    IF k > Len(list) THEN Append(list, review)
    ELSE [list EXCEPT ![k] = review]

\* lines 983-987
existingIndexOf(reviewStatuses, body) ==
    findIndex(reviewStatuses,
              LAMBDA review : /\ review.filePath = fullKeyOf(body)
                              /\ review.variantLabel = body.variantLabel
                              /\ review.compareType = body.compareType)

\* lines 990-995
legacyIndexOf(reviewStatuses, body) ==
    findIndex(reviewStatuses,
              LAMBDA review : /\ review.filePath = body.filePath
                              /\ ~includes(review.filePath, ":")
                              /\ review.variantLabel = body.variantLabel
                              /\ review.compareType = body.compareType)

\* lines 977-1018: the list after the request; both indices are found
\* before the legacy review is removed
updatedReviews(reviewStatuses, body) ==
    LET existingIndex == existingIndexOf(reviewStatuses, body)
        legacyIndex == legacyIndexOf(reviewStatuses, body)
        withoutLegacy == IF legacyIndex >= 1
                         THEN spliceOne(reviewStatuses, legacyIndex)
                         ELSE reviewStatuses
        newReview == [filePath     |-> fullKeyOf(body),
                      variantLabel |-> body.variantLabel,
                      compareType  |-> body.compareType,
                      status       |-> body.status]
    IN  IF body.status = "unchecked"
        THEN IF existingIndex >= 1
             THEN spliceOne(withoutLegacy, existingIndex)
             ELSE withoutLegacy
        ELSE IF existingIndex >= 1
             THEN assign(withoutLegacy, existingIndex, newReview)
             ELSE Append(withoutLegacy, newReview)

\* the key of the request: what lines 984-986 compare
keyOf(body) ==
    [filePath     |-> fullKeyOf(body),
     variantLabel |-> body.variantLabel,
     compareType  |-> body.compareType]

RequestKeys == {keyOf(body) : body \in ReviewBodies}

ReviewInit ==
    /\ \E list \in ReviewLists :
          /\ stored = [StoredAtFirst EXCEPT !.reviewStatuses = list]
          /\ initialReviews = list
    /\ reviewBody = NoBody
    /\ reviewConfig = NoStore
    /\ reviewResponse = NoResponse
    /\ reviewCount = 0
    /\ latest = [key \in RequestKeys |-> "none"]
    /\ pc = "idle"
    /\ OnlyReview

\* lines 974 and 1025-1027: updateReviewStatusSchema refuses the body
RejectReview ==
    /\ pc = "idle"
    /\ reviewCount < MaxRequests
    /\ \E body \in ReviewBodies :
          /\ body.status \notin {"unchecked", "correct", "needs-attention"}
          /\ reviewBody' = body
    /\ reviewResponse' = [status |-> 400, ok |-> FALSE]
    /\ reviewCount' = reviewCount + 1
    /\ UNCHANGED <<stored, reviewConfig, initialReviews, latest, pc,
                   otherThanReviewVars>>

\* lines 974-976: a request arrives and the configuration is read
ReadReviews ==
    /\ pc = "idle"
    /\ reviewCount < MaxRequests
    /\ \E body \in ReviewBodies :
          /\ body.status \in {"unchecked", "correct", "needs-attention"}
          /\ reviewBody' = body
    /\ reviewConfig' = stored
    /\ reviewResponse' = NoResponse
    /\ reviewCount' = reviewCount + 1
    /\ pc' = "review"
    /\ UNCHANGED <<stored, initialReviews, latest, otherThanReviewVars>>

\* lines 977-1023: the list is changed, written and the request answered
WriteReviews ==
    /\ pc = "review"
    /\ reviewConfig' = [reviewConfig EXCEPT
                          !.reviewStatuses = updatedReviews(@, reviewBody)]
    /\ stored' = reviewConfig'
    /\ reviewResponse' = [status |-> 200, ok |-> TRUE]
    /\ latest' = [latest EXCEPT ![keyOf(reviewBody)] = reviewBody.status]
    /\ pc' = "idle"
    /\ UNCHANGED <<reviewBody, reviewCount, initialReviews, otherThanReviewVars>>

ReviewNext ==
    \/ RejectReview
    \/ ReadReviews
    \/ WriteReviews

ReviewSpec == ReviewInit /\ [][ReviewNext]_vars

-----------------------------------------------------------------------------
(* The handler of POST /api/save (lines 392-428) beside the handler of     *)
(* POST /api/review-status: each awaits the read of the file and the write *)
(* of the file, and the other may run in between.                          *)

MaxSaves == 1

\* an exercise of a body, with its target folder
exerciseIn(targetFolder) ==
    [targetFolder |-> targetFolder,
     exerciseName |-> <<"X", " ">>,
     variants |-> <<blankVariant(<<"B">>), blankVariant(<<"X">>),
                    blankVariant(<<"!">>)>>]

\* lines 93-98: the bodies of the requests, with a target folder that is
\* accepted and one that is refused
SaveBodies ==
    [given : {TRUE},
     exercises : {<<exerciseIn(<<"/", "d">>)>>, <<exerciseIn(<<".", ".">>)>>},
     activeExerciseIndex : {0}]

\* the review lists without a review that has no prefix
PrefixedReviewLists ==
    { list \in ReviewLists :
        \A k \in 1..Len(list) : includes(list[k].filePath, ":") }

SaveInit ==
    /\ \E list \in PrefixedReviewLists :
          /\ stored = [StoredAtFirst EXCEPT !.reviewStatuses = list]
          /\ initialReviews = list
    /\ reviewBody = NoBody
    /\ reviewConfig = NoStore
    /\ reviewResponse = NoResponse
    /\ reviewCount = 0
    /\ latest = [key \in RequestKeys |-> "none"]
    /\ saveBody = NoBody
    /\ existingConfig = NoStore
    /\ savePc = "idle"
    /\ saveCount = 0
    /\ saveResponse = NoResponse
    /\ pc = "idle"
    /\ OnlyReviewAndSave

\* lines 397-407
normalizedExercises(list) ==
    [k \in 1..Len(list) |->
        [list[k] EXCEPT
            !.targetFolder = withoutLeadingSlash(trim(list[k].targetFolder)),
            !.exerciseName = trim(list[k].exerciseName)]]

\* lines 394-398 and 426: normalizeTargetFolder throws for an exercise
RejectSave ==
    /\ savePc = "idle"
    /\ saveCount < MaxSaves
    /\ \E body \in SaveBodies :
          /\ \E k \in 1..Len(body.exercises) :
                normalizeTargetFolder(body.exercises[k].targetFolder).threw
          /\ saveBody' = body
    /\ saveResponse' = [status |-> 500, ok |-> FALSE]
    /\ saveCount' = saveCount + 1
    /\ UNCHANGED <<stored, existingConfig, savePc, pc, otherThanSaveVars>>

\* lines 394-410: a request arrives and the configuration is read
ReadExisting ==
    /\ savePc = "idle"
    /\ saveCount < MaxSaves
    /\ \E body \in SaveBodies :
          /\ \A k \in 1..Len(body.exercises) :
                ~normalizeTargetFolder(body.exercises[k].targetFolder).threw
          /\ saveBody' = body
    /\ existingConfig' = stored
    /\ saveResponse' = NoResponse
    /\ saveCount' = saveCount + 1
    /\ savePc' = "save"
    /\ UNCHANGED <<stored, pc, otherThanSaveVars>>

\* lines 412-420: the configuration is written with the reviews that were
\* read, and the request answered
WriteSaved ==
    /\ savePc = "save"
    /\ stored' = [exercises |-> normalizedExercises(saveBody.exercises),
                  activeExerciseIndex |-> saveBody.activeExerciseIndex,
                  reviewStatuses |-> existingConfig.reviewStatuses]
    /\ saveResponse' = [status |-> 200, ok |-> TRUE]
    /\ savePc' = "idle"
    /\ UNCHANGED <<saveBody, existingConfig, saveCount, pc, otherThanSaveVars>>

SaveNext ==
    \/ RejectReview
    \/ ReadReviews
    \/ WriteReviews
    \/ RejectSave
    \/ ReadExisting
    \/ WriteSaved

SaveSpec == SaveInit /\ [][SaveNext]_vars

-----------------------------------------------------------------------------
(* POST /api/compare (lines 553-728).  The active exercise has the base    *)
(* variant B and the variants X and Y, whose slugs differ, so each variant *)
(* has a directory of its own for the compare type; disk[k] is the         *)
(* directory of variant k and its files in the order readdir lists them,   *)
(* which the file system chooses.  The target folder of the exercise is    *)
(* one normalizeTargetFolder accepts.  The lineDiff of an entry of the     *)
(* answer is computeLineDiff of its two contents and is left out here.     *)

MaxCompareFiles == 2

MaxMappings == 2

\* the paths of the model in the order Array.prototype.sort puts them
SortedPaths == <<"A.java", "B.java", "C.java">>

ComparePaths == {SortedPaths[k] : k \in 1..Len(SortedPaths)}

\* line 100
CompareTypes == {"problem", "test", "solution", "template"}

\* lines 533-551: the files of a directory, each path once
FilesRead(paths, contents, most) ==
    UNION { { fileMap \in [1..n -> [path : paths, content : contents]] :
                \A k, l \in 1..n : k < l => fileMap[k].path # fileMap[l].path }
            : n \in 0..most }

Directories(paths, contents, most) ==
    { [exists |-> TRUE, files |-> fileMap] :
        fileMap \in FilesRead(paths, contents, most) }

\* lines 71-75: fileMappingSchema; the base file is A.java
FileMappings ==
    [baseFile : {"A.java"},
     variantFile : {"B.java", "C.java"},
     variantLabel : {"X", "Y"}]

FileMappingLists == UNION {[1..n -> FileMappings] : n \in 0..MaxMappings}

exerciseWith(baseMarkdown, fileMappings) ==
    [present |-> TRUE,
     variants |-> <<[label |-> "B", markdown |-> baseMarkdown],
                    [label |-> "X", markdown |-> "x"],
                    [label |-> "Y", markdown |-> ""]>>,
     fileMappings |-> fileMappings]

\* a comparison of the test repositories with any mappings and files, or a
\* comparison of the problem statements, or a request without compare type
CompareInit ==
    /\ \/ /\ compareBody = [given |-> TRUE, compareType |-> "test"]
          /\ compareConfig \in
                 {exerciseWith("x", list) : list \in FileMappingLists}
          /\ disk \in
                 { <<base, second, third>> :
                     base \in {NoDirectory}
                                \cup Directories({"A.java"}, {"x"}, 1),
                     second \in Directories(ComparePaths, {"x", "y"},
                                            MaxCompareFiles),
                     third \in {NoDirectory}
                                 \cup Directories({"A.java"}, {"x"}, 1) }
       \/ /\ compareBody \in {[given |-> TRUE, compareType |-> "problem"],
                              [given |-> TRUE, compareType |-> "none"]}
          /\ compareConfig \in {exerciseWith(m, <<>>) : m \in {"", "x"}}
          /\ disk = <<NoDirectory, NoDirectory, NoDirectory>>
    /\ baseRepoFiles = <<>>
    /\ variantFileMaps = <<>>
    /\ variantFiles = <<>>
    /\ mappedFiles = <<>>
    /\ fileIndex = 0
    /\ compareResponse = NoResponse
    /\ pc = "compare"
    /\ OnlyCompare

\* Map.get(path) ?? ''
contentAt(fileMap, path) ==
    IF has(fileMap, path)
    THEN fileMap[CHOOSE k \in 1..Len(fileMap) : fileMap[k].path = path].content
    ELSE ""

\* Map.set: the value of a key the map has is replaced where it is, a new
\* key goes to the end
setContent(fileMap, path, content) ==
    IF has(fileMap, path)
    THEN [k \in 1..Len(fileMap) |->
            IF fileMap[k].path = path
            THEN [path |-> path, content |-> content]
            ELSE fileMap[k]]
    ELSE Append(fileMap, [path |-> path, content |-> content])

\* line 555: compareRequestSchema.parse throws, lines 722-724
RejectCompare ==
    /\ pc = "compare"
    /\ compareBody.compareType \notin CompareTypes
    /\ compareResponse' = [status |-> 400]
    /\ pc' = "done"
    /\ UNCHANGED <<compareBody, compareConfig, disk, baseRepoFiles,
                   variantFileMaps, variantFiles, mappedFiles, fileIndex>>
    /\ UNCHANGED otherThanCompareVars

\* lines 577-587
problemVariants ==
    [k \in 1..(VariantCount - 1) |->
        [variant |-> compareConfig.variants[k + 1].label,
         content |-> compareConfig.variants[k + 1].markdown,
         hasDifference |-> compareConfig.variants[1].markdown
                               # compareConfig.variants[k + 1].markdown,
         exists |-> TRUE]]

\* lines 570-598
CompareProblem ==
    /\ pc = "compare"
    /\ compareBody.compareType = "problem"
    /\ compareResponse' =
           [status |-> 200,
            compareType |-> compareBody.compareType,
            baseVariant |-> compareConfig.variants[1].label,
            fileComparisons |->
                <<[relativePath |-> "problem.md",
                   baseContent |-> compareConfig.variants[1].markdown,
                   variants |-> problemVariants]>>,
            variantLabels |->
                [k \in 1..(VariantCount - 1) |->
                    compareConfig.variants[k + 1].label]]
    /\ pc' = "done"
    /\ UNCHANGED <<compareBody, compareConfig, disk, baseRepoFiles,
                   variantFileMaps, variantFiles, mappedFiles, fileIndex>>
    /\ UNCHANGED otherThanCompareVars

\* the request compares repositories
ComparesRepositories ==
    compareBody.compareType \in CompareTypes \ {"problem"}

\* lines 613-616
RejectNoBaseDir ==
    /\ pc = "compare"
    /\ ComparesRepositories
    /\ ~disk[1].exists
    /\ compareResponse' = [status |-> 400]
    /\ pc' = "done"
    /\ UNCHANGED <<compareBody, compareConfig, disk, baseRepoFiles,
                   variantFileMaps, variantFiles, mappedFiles, fileIndex>>
    /\ UNCHANGED otherThanCompareVars

\* lines 618-621
ReadBaseRepo ==
    /\ pc = "compare"
    /\ ComparesRepositories
    /\ disk[1].exists
    /\ baseRepoFiles' = disk[1].files
    /\ pc' = "variant"
    /\ UNCHANGED <<compareBody, compareConfig, disk, variantFileMaps,
                   variantFiles, mappedFiles, fileIndex, compareResponse>>
    /\ UNCHANGED otherThanCompareVars

\* the variant handled next, as a position in config.variants
variantAtHand == Len(variantFileMaps) + 2

\* lines 628-635: the directory of the variant is missing
MissingVariantDir ==
    /\ pc = "variant"
    /\ variantAtHand <= VariantCount
    /\ ~disk[variantAtHand].exists
    /\ variantFileMaps' =
           Append(variantFileMaps,
                  [label |-> compareConfig.variants[variantAtHand].label,
                   files |-> <<>>,
                   exists |-> FALSE])
    /\ UNCHANGED <<compareBody, compareConfig, disk, baseRepoFiles,
                   variantFiles, mappedFiles, fileIndex, compareResponse, pc>>
    /\ UNCHANGED otherThanCompareVars

\* lines 636-639
ReadVariantFiles ==
    /\ pc = "variant"
    /\ variantAtHand <= VariantCount
    /\ disk[variantAtHand].exists
    /\ variantFiles' = disk[variantAtHand].files
    /\ mappedFiles' = <<>>
    /\ fileIndex' = 1
    /\ pc' = "map"
    /\ UNCHANGED <<compareBody, compareConfig, disk, baseRepoFiles,
                   variantFileMaps, compareResponse>>
    /\ UNCHANGED otherThanCompareVars

\* lines 642-644: the positions in fileMappings of the mappings of a file
\* of the variant labelled label
mappingsOf(fileMappings, filePath, label) ==
    { k \in 1..Len(fileMappings) :
        /\ fileMappings[k].variantFile = filePath
        /\ fileMappings[k].variantLabel = label }

\* lines 642-651: the path under which a file of a variant is compared;
\* Array.prototype.find takes the first mapping
comparisonPath(fileMappings, filePath, label) ==
    LET found == mappingsOf(fileMappings, filePath, label)
    IN  IF found # {}
        THEN fileMappings[CHOOSE k \in found : \A l \in found : k <= l].baseFile
        ELSE filePath

\* lines 645-647: the file has a mapping
UseBaseFile ==
    /\ pc = "map"
    /\ fileIndex <= Len(variantFiles)
    /\ LET file == variantFiles[fileIndex]
           label == compareConfig.variants[variantAtHand].label
       IN  /\ mappingsOf(compareConfig.fileMappings, file.path, label) # {}
           /\ mappedFiles' =
                  setContent(mappedFiles,
                             comparisonPath(compareConfig.fileMappings,
                                            file.path, label),
                             file.content)
    /\ fileIndex' = fileIndex + 1
    /\ UNCHANGED <<compareBody, compareConfig, disk, baseRepoFiles,
                   variantFileMaps, variantFiles, compareResponse, pc>>
    /\ UNCHANGED otherThanCompareVars

\* lines 648-651: the file has no mapping
KeepFilePath ==
    /\ pc = "map"
    /\ fileIndex <= Len(variantFiles)
    /\ LET file == variantFiles[fileIndex]
           label == compareConfig.variants[variantAtHand].label
       IN  /\ mappingsOf(compareConfig.fileMappings, file.path, label) = {}
           /\ mappedFiles' = setContent(mappedFiles, file.path, file.content)
    /\ fileIndex' = fileIndex + 1
    /\ UNCHANGED <<compareBody, compareConfig, disk, baseRepoFiles,
                   variantFileMaps, variantFiles, compareResponse, pc>>
    /\ UNCHANGED otherThanCompareVars

\* lines 654-658
ReturnMappedFiles ==
    /\ pc = "map"
    /\ fileIndex > Len(variantFiles)
    /\ variantFileMaps' =
           Append(variantFileMaps,
                  [label |-> compareConfig.variants[variantAtHand].label,
                   files |-> mappedFiles,
                   exists |-> TRUE])
    /\ pc' = "variant"
    /\ UNCHANGED <<compareBody, compareConfig, disk, baseRepoFiles,
                   variantFiles, mappedFiles, fileIndex, compareResponse>>
    /\ UNCHANGED otherThanCompareVars

\* Map.keys
keysOf(fileMap) == {fileMap[k].path : k \in 1..Len(fileMap)}

\* lines 664-670
allPaths ==
    keysOf(baseRepoFiles)
        \cup UNION { keysOf(variantFileMaps[k].files) :
                       k \in 1..Len(variantFileMaps) }

\* lines 673-688
filesWithChanges ==
    { relPath \in allPaths :
        \E k \in 1..Len(variantFileMaps) :
            contentAt(baseRepoFiles, relPath)
                # contentAt(variantFileMaps[k].files, relPath) }

\* lines 692-711
fileComparison(relPath) ==
    [relativePath |-> relPath,
     baseContent |-> contentAt(baseRepoFiles, relPath),
     variants |->
         [k \in 1..Len(variantFileMaps) |->
             [variant |-> variantFileMaps[k].label,
              content |-> contentAt(variantFileMaps[k].files, relPath),
              hasDifference |->
                  contentAt(baseRepoFiles, relPath)
                      # contentAt(variantFileMaps[k].files, relPath),
              exists |-> has(variantFileMaps[k].files, relPath)]]]

\* line 691: Array.from(filesWithChanges).sort()
sortedChanges == SelectSeq(SortedPaths, LAMBDA p : p \in filesWithChanges)

\* lines 662-720
CompareRespond ==
    /\ pc = "variant"
    /\ variantAtHand > VariantCount
    /\ compareResponse' =
           [status |-> 200,
            compareType |-> compareBody.compareType,
            baseVariant |-> compareConfig.variants[1].label,
            fileComparisons |->
                [k \in 1..Len(sortedChanges) |->
                    fileComparison(sortedChanges[k])],
            variantLabels |->
                [k \in 1..Len(variantFileMaps) |-> variantFileMaps[k].label]]
    /\ pc' = "done"
    /\ UNCHANGED <<compareBody, compareConfig, disk, baseRepoFiles,
                   variantFileMaps, variantFiles, mappedFiles, fileIndex>>
    /\ UNCHANGED otherThanCompareVars

CompareNext ==
    \/ RejectCompare
    \/ CompareProblem
    \/ RejectNoBaseDir
    \/ ReadBaseRepo
    \/ MissingVariantDir
    \/ ReadVariantFiles
    \/ UseBaseFile
    \/ KeepFilePath
    \/ ReturnMappedFiles
    \/ CompareRespond

CompareSpec == CompareInit /\ [][CompareNext]_vars

-----------------------------------------------------------------------------
(* The client: ExerciseProvider (src/unnamed/part_003) with the effect of  *)
(* ComparePage that fetches the comparison (ComparePage.tsx, lines         *)
(* 578-614), and the server answering the requests of the two in the order *)
(* they were sent.  An exercise is its name.  At first the configuration   *)
(* is loaded and saved and nothing is under way.  Time passes from one     *)
(* timer that is due to the next; a call of an operation of the provider   *)
(* is an event of its own, followed by a render and its effects.           *)

MaxExercises == 3

MaxOperations == 3

\* part_003, line 99: setTimeout(..., 300)
DebounceMs == 300

\* ComparePage.tsx, line 591: setTimeout(resolve, 100)
CompareDelayMs == 100

\* part_003, lines 20-33 and 105-108
exerciseNamed(name) == [exerciseName |-> name]

\* the exercises loaded: a, or a and b
LoadedExercises ==
    {<<exerciseNamed("a")>>, <<exerciseNamed("a"), exerciseNamed("b")>>}

\* part_003, lines 42-62, and the save and the fetch that follow it
ClientInit ==
    /\ exercises \in LoadedExercises
    /\ activeExerciseIndex \in 0..(Len(exercises) - 1)
    /\ stored = [exercises |-> exercises,
                 activeExerciseIndex |-> activeExerciseIndex,
                 reviewStatuses |-> <<>>]
    /\ isSaving = FALSE
    /\ timeoutId = NoTimer
    /\ delays = <<>>
    /\ requests = <<>>
    /\ comparison = Nothing
    /\ operations = 0
    /\ lastCall = NoCall
    /\ pc = "idle"
    /\ OnlyClient

\* part_003, lines 66-102: the effect runs when exercises or
\* activeExerciseIndex changed; it clears the timer and sets a new one
saveEffect(changed) ==
    IF changed THEN [pending |-> TRUE, remaining |-> DebounceMs] ELSE timeoutId

\* ComparePage.tsx, lines 578-614: the effect runs when activeExerciseIndex
\* or isSaving changed; it returns when a save is under way and else starts
\* fetchComparison, which waits first
fetchEffect(changed, saving) ==
    IF changed /\ ~saving THEN Append(delays, CompareDelayMs) ELSE delays

\* the render after a call set exercises and activeExerciseIndex, and the
\* effects of the two components
Render(newExercises, newIndex) ==
    /\ exercises' = newExercises
    /\ activeExerciseIndex' = newIndex
    /\ timeoutId' = saveEffect(newExercises # exercises
                                   \/ newIndex # activeExerciseIndex)
    /\ delays' = fetchEffect(newIndex # activeExerciseIndex, isSaving)

\* what a call finds
Called(op) ==
    /\ operations < MaxOperations
    /\ operations' = operations + 1
    /\ lastCall' = [op |-> op,
                    exercises |-> exercises,
                    activeExerciseIndex |-> activeExerciseIndex]

\* part_003, lines 104-114
addExercise ==
    /\ Len(exercises) < MaxExercises
    /\ Called("addExercise")
    /\ Render(Append(exercises, exerciseNamed("c")), Len(exercises))
    /\ UNCHANGED <<stored, isSaving, requests, comparison>>
    /\ UNCHANGED otherThanClientVars

\* prev.filter((_, idx) => idx !== index), index counted from 0
without(list, at) ==
    SubSeq(list, 1, at) \o SubSeq(list, at + 2, Len(list))

\* faulty variant of indexAfterDelete: the index is left as it is
indexKept(active, at, newLength) == active

\* part_003, lines 121-125
indexAfterDelete(active, at, newLength) ==
    IF active >= newLength THEN Max(0, newLength - 1)
    ELSE IF active > at THEN active - 1
    ELSE active

\* part_003, lines 116-126
deleteExercise ==
    \E at \in 0..(Len(exercises) - 1) :
        /\ Called("deleteExercise")
        /\ IF Len(exercises) <= 1
           THEN Render(exercises, activeExerciseIndex)
           ELSE Render(without(exercises, at),
                       indexAfterDelete(activeExerciseIndex, at,
                                        Len(exercises) - 1))
        /\ UNCHANGED <<stored, isSaving, requests, comparison>>
        /\ UNCHANGED otherThanClientVars

\* part_003, line 37: the setter of the state, called with a valid index
setActiveExerciseIndex ==
    \E to \in 0..(Len(exercises) - 1) :
        /\ Called("setActiveExerciseIndex")
        /\ Render(exercises, to)
        /\ UNCHANGED <<stored, isSaving, requests, comparison>>
        /\ UNCHANGED otherThanClientVars

\* the times left of the timers that are set
timesLeft ==
    {delays[k] : k \in 1..Len(delays)}
        \cup (IF timeoutId.pending THEN {timeoutId.remaining} ELSE {})

\* time passes until the next timer is due
Advance ==
    /\ timesLeft # {}
    /\ 0 \notin timesLeft
    /\ LET passed == CHOOSE t \in timesLeft : \A u \in timesLeft : t <= u
       IN  /\ delays' = [k \in 1..Len(delays) |-> delays[k] - passed]
           /\ timeoutId' =
                  IF timeoutId.pending
                  THEN [timeoutId EXCEPT !.remaining = @ - passed]
                  ELSE timeoutId
    /\ UNCHANGED <<exercises, activeExerciseIndex, stored, isSaving, requests,
                   comparison, operations, lastCall>>
    /\ UNCHANGED otherThanClientVars

\* part_003, lines 72-91: the timer of the save effect is due; isSaving is
\* set and POST /api/save sent; the effect of ComparePage returns
SendSave ==
    /\ timeoutId.pending
    /\ timeoutId.remaining = 0
    /\ timeoutId' = NoTimer
    /\ isSaving' = TRUE
    /\ requests' =
           Append(requests,
                  [url |-> "/api/save",
                   body |-> [exercises |-> exercises,
                             activeExerciseIndex |-> activeExerciseIndex],
                   handled |-> FALSE])
    /\ UNCHANGED <<exercises, activeExerciseIndex, stored, delays, comparison,
                   operations, lastCall>>
    /\ UNCHANGED otherThanClientVars

\* ComparePage.tsx, lines 591-598: a delay of fetchComparison is over and
\* POST /api/compare is sent; index is the activeExerciseIndex of the
\* client at that moment
SendCompare ==
    \E k \in 1..Len(delays) :
        /\ delays[k] = 0
        /\ delays' = without(delays, k - 1)
        /\ requests' =
               Append(requests,
                      [url |-> "/api/compare",
                       body |-> [compareType |-> "test"],
                       index |-> activeExerciseIndex,
                       handled |-> FALSE])
        /\ UNCHANGED <<exercises, activeExerciseIndex, stored, isSaving,
                       timeoutId, comparison, operations, lastCall>>
        /\ UNCHANGED otherThanClientVars

\* the request the server handles next: the first it has not handled
nextRequest ==
    CHOOSE k \in 1..Len(requests) :
        /\ ~requests[k].handled
        /\ \A l \in 1..(k - 1) : requests[l].handled

Waiting == \E k \in 1..Len(requests) : ~requests[k].handled

\* src/unnamed/part_000, lines 392-420: POST /api/save with exercises whose
\* names and target folders are valid
HandleSave ==
    /\ Waiting
    /\ requests[nextRequest].url = "/api/save"
    /\ stored' =
           [exercises |-> requests[nextRequest].body.exercises,
            activeExerciseIndex |->
                requests[nextRequest].body.activeExerciseIndex,
            reviewStatuses |-> stored.reviewStatuses]
    /\ requests' = [requests EXCEPT ![nextRequest].handled = TRUE]
    /\ UNCHANGED <<exercises, activeExerciseIndex, isSaving, timeoutId, delays,
                   comparison, operations, lastCall>>
    /\ UNCHANGED otherThanClientVars

\* src/unnamed/part_000, lines 340-342 and 557: the index of the exercise
\* POST /api/compare compares
activeIndexOf(multiConfig) ==
    IF multiConfig.activeExerciseIndex >= Len(multiConfig.exercises)
    THEN Max(0, Len(multiConfig.exercises) - 1)
    ELSE multiConfig.activeExerciseIndex

\* src/unnamed/part_000, lines 553-720: the comparison is computed against
\* the active exercise of the stored configuration
HandleCompare ==
    /\ Waiting
    /\ requests[nextRequest].url = "/api/compare"
    /\ requests' =
           [requests EXCEPT
               ![nextRequest] =
                   [url |-> "/api/compare",
                    body |-> requests[nextRequest].body,
                    index |-> requests[nextRequest].index,
                    handled |-> TRUE,
                    against |-> activeIndexOf(stored)]]
    /\ UNCHANGED <<exercises, activeExerciseIndex, stored, isSaving, timeoutId,
                   delays, comparison, operations, lastCall>>
    /\ UNCHANGED otherThanClientVars

\* part_003, lines 92-98: the answer to POST /api/save arrives; the effect
\* of ComparePage runs when isSaving changed
SaveAnswered ==
    \E k \in 1..Len(requests) :
        /\ requests[k].url = "/api/save"
        /\ requests[k].handled
        /\ requests' = without(requests, k - 1)
        /\ isSaving' = FALSE
        /\ delays' = fetchEffect(isSaving, FALSE)
        /\ UNCHANGED <<exercises, activeExerciseIndex, stored, timeoutId,
                       comparison, operations, lastCall>>
        /\ UNCHANGED otherThanClientVars

\* ComparePage.tsx, lines 599-605: the answer to POST /api/compare arrives
CompareAnswered ==
    \E k \in 1..Len(requests) :
        /\ requests[k].url = "/api/compare"
        /\ requests[k].handled
        /\ requests' = without(requests, k - 1)
        /\ comparison' = [returned |-> TRUE, against |-> requests[k].against]
        /\ UNCHANGED <<exercises, activeExerciseIndex, stored, isSaving,
                       timeoutId, delays, operations, lastCall>>
        /\ UNCHANGED otherThanClientVars

ClientNext ==
    \/ addExercise
    \/ deleteExercise
    \/ setActiveExerciseIndex
    \/ Advance
    \/ SendSave
    \/ SendCompare
    \/ HandleSave
    \/ HandleCompare
    \/ SaveAnswered
    \/ CompareAnswered

ClientSpec == ClientInit /\ [][ClientNext]_vars

-----------------------------------------------------------------------------
(* Notions the properties are stated with.                                 *)

RECURSIVE TextLines(_)
\* The lines of a text: a newline ends a line, and a last line need not be
\* ended by one.
TextLines(text) ==
    IF text = <<>> THEN <<>>
    ELSE LET firstLen == CHOOSE n \in 0..Len(text) :
                            /\ \A k \in 1..n : text[k] # NL
                            /\ n < Len(text) => text[n + 1] = NL
         IN  <<SubSeq(text, 1, firstLen)>> \o
             TextLines(SubSeq(text, firstLen + 2, Len(text)))

OfTypes(entries, types) == SelectSeq(entries, LAMBDA e : e.type \in types)

BaseFields(entries) ==
    LET es == OfTypes(entries, {"equal", "remove", "modify"})
    IN  [k \in 1..Len(es) |-> es[k].base]

VariantFields(entries) ==
    LET es == OfTypes(entries, {"equal", "add", "modify"})
    IN  [k \in 1..Len(es) |-> es[k].variant]

CountType(entries, type) == Len(OfTypes(entries, {type}))

-----------------------------------------------------------------------------
\* C1: the base fields of the equal, remove and modify entries returned,
\* in output order, are exactly the lines of the base text in their order.
C1_BaseReconstruction ==
    pc = "done" => BaseFields(processed) = TextLines(baseContent)

\* a returned diff that holds an equal, a remove and a modify entry
C1_Witness ==
    /\ pc = "done"
    /\ CountType(processed, "modify") > 0
    /\ CountType(processed, "remove") > 0
    /\ BaseFields(processed) = TextLines(baseContent)
    /\ Len(TextLines(baseContent)) = MaxLines

\* C2 as the specification states it: the variant fields of the equal, add
\* and modify entries returned, in output order, are exactly the lines of
\* the variant text in their order.
C2_VariantReconstruction ==
    pc = "done" => VariantFields(processed) = TextLines(variantContent)

\* C3: equal and modify entries carry base and variant, add entries carry
\* only variant, remove entries carry only base.
EntryShape(e) ==
    /\ e.type \in {"equal", "modify"} => DOMAIN e = {"type", "base", "variant"}
    /\ e.type = "add" => DOMAIN e = {"type", "variant"}
    /\ e.type = "remove" => DOMAIN e = {"type", "base"}
    /\ e.type \in {"equal", "add", "remove", "modify"}

C3_EntryShape ==
    pc = "done" => \A k \in 1..Len(processed) : EntryShape(processed[k])

\* a returned diff with a modify, an add and a remove entry
C3_Witness ==
    /\ pc = "done"
    /\ CountType(processed, "modify") > 0
    /\ CountType(processed, "add") > 0
    /\ CountType(processed, "remove") > 0

-----------------------------------------------------------------------------
(* The chunk being paired: its remove and add lines, and the state right   *)
(* after the remove line at position r - 1 was handled.                    *)

RemoveLine(k) == removeLines[k].line.base
AddLine(k)    == addLines[k].line.variant
Similarity(k, a) == calculateStringSimilarity(RemoveLine(k), AddLine(a))

Last(seq) == seq[Len(seq)]

\* a remove line of the chunk has just been handled
Handled == pc = "pair" /\ r > 1

\* the add lines that were still unused when that remove line was handled
UnusedBefore == (1..Len(addLines)) \ (usedAddIndices \ {bestMatch.addIdx})

\* the unused add lines whose similarity to that remove line exceeds 0.2
Candidates == {a \in UnusedBefore : Greater(Similarity(r - 1, a), Threshold)}

\* a is the earliest of the candidates of highest similarity
IsBest(a) ==
    /\ a \in Candidates
    /\ \A b \in Candidates :
          /\ ~Greater(Similarity(r - 1, b), Similarity(r - 1, a))
          /\ (~Greater(Similarity(r - 1, a), Similarity(r - 1, b)) => a <= b)

\* C4: a remove line of a chunk is paired with the earliest unused add line
\* of highest similarity above 0.2, and stays a remove when there is none;
\* base lines [foo, bar] and variant lines [foo, baz] give
\* Equal(foo), Modify(bar, baz).
C4_GreedyBestMatch ==
    /\ Handled =>
          IF Candidates = {}
          THEN /\ bestMatch.addIdx = 0
               /\ Last(processed) = RemoveEntry(RemoveLine(r - 1))
          ELSE /\ IsBest(bestMatch.addIdx)
               /\ Last(processed) =
                     ModifyEntry(RemoveLine(r - 1), AddLine(bestMatch.addIdx))
    /\ (/\ pc = "done"
        /\ TextLines(baseContent) = <<foo, bar>>
        /\ TextLines(variantContent) = <<foo, baz>>)
       => processed = <<EqualEntry(foo), ModifyEntry(bar, baz)>>

\* a remove line with two unused candidates of the same, highest similarity
\* was paired with the earlier one
C4_Witness ==
    /\ Handled
    /\ \E a, b \in Candidates :
          /\ a < b
          /\ AddLine(a) # AddLine(b)
          /\ Similarity(r - 1, a) = Similarity(r - 1, b)
          /\ IsBest(a)
          /\ bestMatch.addIdx = a
          /\ Last(processed) = ModifyEntry(RemoveLine(r - 1), AddLine(a))

ModifyEntries(entries) == OfTypes(entries, {"modify"})

\* C5: no modify entry joins two lines of similarity exactly 0.2, and the
\* only remove/add pair of a chunk is joined when its similarity exceeds 0.2.
C5_StrictThreshold ==
    /\ \A k \in 1..Len(processed) :
          processed[k].type = "modify" =>
              calculateStringSimilarity(processed[k].base, processed[k].variant)
                  # Threshold
    /\ (/\ Handled
        /\ Len(removeLines) = 1
        /\ Len(addLines) = 1
        /\ Greater(Similarity(1, 1), Threshold))
       => Last(processed) = ModifyEntry(RemoveLine(1), AddLine(1))

\* the pair alpha / beta, of similarity (5 - 4) / 5, was left a remove
C5_Witness ==
    /\ Handled
    /\ Len(removeLines) = 1
    /\ Len(addLines) = 1
    /\ Similarity(1, 1) = Threshold
    /\ levenshteinDistance(RemoveLine(1), AddLine(1)) = 4
    /\ Last(processed) = RemoveEntry(RemoveLine(1))
    /\ bestMatch.addIdx = 0

\* the chunk has just been emitted completely
Flushed == pc = "scan" /\ i = j /\ addLines # <<>>

\* the entries emitted for the chunk
ChunkOutput ==
    SubSeq(processed,
           Len(processed) - (Len(removeLines) + Len(addLines)
                             - Cardinality(usedAddIndices)) + 1,
           Len(processed))

\* C6: a paired chunk is emitted as one entry per remove line, in their
\* order (a modify with that line as base, or the remove itself), directly
\* followed by the add lines no modify took, in their order.
C6_ChunkLayout ==
    Flushed =>
        LET n     == Len(removeLines)
            out   == ChunkOutput
            spare == Len(out) - n
        IN  /\ Len(out) >= n
            /\ \A k \in 1..n :
                  \/ out[k] = RemoveEntry(RemoveLine(k))
                  \/ \E a \in usedAddIndices :
                        out[k] = ModifyEntry(RemoveLine(k), AddLine(a))
            /\ \E pos \in [1..spare -> 1..Len(addLines)] :
                  /\ \A k \in 1..spare : out[n + k] = AddEntry(AddLine(pos[k]))
                  /\ \A k \in 1..spare : pos[k] \notin usedAddIndices
                  /\ \A k, l \in 1..spare : k < l => pos[k] < pos[l]
                  /\ \A a \in 1..Len(addLines) :
                        a \notin usedAddIndices => \E k \in 1..spare : pos[k] = a

\* a chunk emitted as a modify, a remove that stayed, and a spare add
C6_Witness ==
    /\ Flushed
    /\ Len(removeLines) = 2
    /\ Len(addLines) = 2
    /\ ChunkOutput[1].type = "modify"
    /\ ChunkOutput[2].type = "remove"
    /\ ChunkOutput[3].type = "add"
    /\ Len(ChunkOutput) = 3

Occurrences(seq, x) == Cardinality({k \in 1..Len(seq) : seq[k] = x})

\* C7: every add line of a chunk is consumed at most once, so the modifies
\* of the chunk are as many as the add lines used; in the diff returned,
\* modifies plus adds are the adds of the raw diff, modifies plus removes
\* are its removes, and every variant line occurs as often as before.
C7_AddUsedOnce ==
    /\ pc = "pair" =>
          /\ r - 1 <= Len(processed)
          /\ CountType(SubSeq(processed, Len(processed) - (r - 1) + 1,
                              Len(processed)), "modify")
                = Cardinality(usedAddIndices)
    /\ pc = "done" =>
          /\ CountType(processed, "modify") + CountType(processed, "add")
                = CountType(result, "add")
          /\ CountType(processed, "modify") + CountType(processed, "remove")
                = CountType(result, "remove")
          /\ \A line \in VariantLineSet :
                Occurrences(VariantFields(processed), line)
                    = Occurrences(VariantFields(result), line)

\* the second remove line resembles an add line that the first remove line
\* took: it stays a remove
C7_Witness ==
    /\ Handled
    /\ r = 3
    /\ bestMatch.addIdx = 0
    /\ \E a \in usedAddIndices : Greater(Similarity(2, a), Threshold)
    /\ Last(processed) = RemoveEntry(RemoveLine(2))

BaseLinesOf(entries) == {entries[k].base : k \in 1..Len(entries)}
VariantLinesOf(entries) == {entries[k].variant : k \in 1..Len(entries)}

\* the entries out are what a chunk of the removes followed by the adds may
\* become: removes and adds of the chunk, and modifies that join a remove
\* line of the chunk with an add line of the chunk
FromChunk(out, removes, adds) ==
    /\ Len(out) + CountType(out, "modify") = Len(removes) + Len(adds)
    /\ \A k \in 1..Len(out) :
          \/ /\ out[k].type = "remove"
             /\ out[k] \in {removes[m] : m \in 1..Len(removes)}
          \/ /\ out[k].type = "add"
             /\ out[k] \in {adds[m] : m \in 1..Len(adds)}
          \/ /\ out[k].type = "modify"
             /\ out[k].base \in BaseLinesOf(removes)
             /\ out[k].variant \in VariantLinesOf(adds)

\* the first index >= from at which entries has no entry of the given type
RunStop(entries, from, type) ==
    CHOOSE n \in from..(Len(entries) + 1) :
        /\ \A k \in from..(n - 1) : entries[k].type = type
        /\ n <= Len(entries) => entries[n].type # type

RECURSIVE Framed(_, _)
\* out is raw with nothing changed but chunks of removes directly followed
\* by adds, each replaced in place by entries made from that chunk alone
Framed(raw, out) ==
    IF raw = <<>> THEN out = <<>>
    ELSE IF Head(raw).type # "remove"
    THEN /\ out # <<>>
         /\ Head(out) = Head(raw)
         /\ Framed(Tail(raw), Tail(out))
    ELSE LET afterRemoves == RunStop(raw, 1, "remove")
             afterAdds    == RunStop(raw, afterRemoves, "add")
             removes      == SubSeq(raw, 1, afterRemoves - 1)
             adds         == SubSeq(raw, afterRemoves, afterAdds - 1)
             rest         == SubSeq(raw, afterAdds, Len(raw))
         IN  IF adds = <<>>
             THEN /\ Len(out) >= Len(removes)
                  /\ SubSeq(out, 1, Len(removes)) = removes
                  /\ Framed(rest, SubSeq(out, Len(removes) + 1, Len(out)))
             ELSE \E n \in 0..Len(out) :
                     /\ FromChunk(SubSeq(out, 1, n), removes, adds)
                     /\ Framed(rest, SubSeq(out, n + 1, Len(out)))

\* C8: a modify only joins a remove line with an add line of the run of adds
\* that directly follows its run of removes; all other entries are returned
\* unchanged and in place.  With base lines [alpha, beta] and variant lines
\* [beta, zzz] the line alpha stays a remove: no modify has it as base.
C8_PairingFrame ==
    pc = "done" =>
        /\ Framed(result, processed)
        /\ (/\ TextLines(baseContent) = <<alpha, beta>>
            /\ TextLines(variantContent) = <<beta, zzz>>)
           => /\ Head(processed) = RemoveEntry(alpha)
              /\ \A k \in 1..Len(processed) :
                    processed[k].type = "modify" => processed[k].base # alpha

\* a remove and an add that an equal line separates and that resemble each
\* other by more than 0.2 were both returned as they are
C8_Witness ==
    /\ pc = "done"
    /\ Len(result) = 3
    /\ result[1].type = "remove"
    /\ result[2].type = "equal"
    /\ result[3].type = "add"
    /\ Greater(calculateStringSimilarity(result[1].base, result[3].variant),
               Threshold)
    /\ processed = result

\* C9: the diff of a text with itself is one equal entry per line.
C9_Identity ==
    (pc = "done" /\ baseContent = variantContent) =>
        LET lines == TextLines(baseContent)
        IN  processed = [k \in 1..Len(lines) |-> EqualEntry(lines[k])]

\* the diff of a text of MaxLines lines with itself
C9_Witness ==
    /\ pc = "done"
    /\ baseContent = variantContent
    /\ Len(processed) = MaxLines
    /\ \A k \in 1..Len(processed) : processed[k].type = "equal"

AllOfType(entries, type) == \A k \in 1..Len(entries) : entries[k].type = type

Degenerate == baseContent = <<>> \/ variantContent = <<>>

\* C10: two empty texts give no entry, an empty base gives only adds, an
\* empty variant gives only removes, and never a modify or an equal entry.
C10_Degenerate ==
    (Degenerate /\ pc = "done") =>
        /\ (baseContent = <<>> /\ variantContent = <<>>) => processed = <<>>
        /\ (baseContent = <<>> /\ variantContent # <<>>) =>
              /\ processed # <<>>
              /\ AllOfType(processed, "add")
        /\ (baseContent # <<>> /\ variantContent = <<>>) =>
              /\ processed # <<>>
              /\ AllOfType(processed, "remove")

\* an empty base against a variant of MaxLines lines: adds only
C10_Witness ==
    /\ pc = "done"
    /\ baseContent = <<>>
    /\ Len(TextLines(variantContent)) = MaxLines
    /\ Len(processed) = MaxLines
    /\ AllOfType(processed, "add")

-----------------------------------------------------------------------------
(* calculateSimilarity: the call of SimilaritySpec has returned            *)
(* contentSimilarity for the blobs argContent1 and argContent2.            *)

OneBlobEmpty == (argContent1 = <<>>) # (argContent2 = <<>>)

BothBlobsNonEmpty == argContent1 # <<>> /\ argContent2 # <<>>

LongerLength == Max(Len(argContent1), Len(argContent2))

\* the number of leading characters two blobs have in common
CommonPrefix(a, b) ==
    CHOOSE n \in 0..Min(Len(a), Len(b)) :
        /\ \A k \in 1..n : a[k] = b[k]
        /\ n < Min(Len(a), Len(b)) => a[n + 1] # b[n + 1]

RECURSIVE LongestCommon(_, _)
\* the length of a longest common subsequence of two blobs: the most
\* characters any character diff can leave unchanged
LongestCommon(a, b) ==
    IF a = <<>> \/ b = <<>> THEN 0
    ELSE LET n == CommonPrefix(a, b)
         IN  IF n > 0
             THEN n + LongestCommon(SubSeq(a, n + 1, Len(a)),
                                    SubSeq(b, n + 1, Len(b)))
             ELSE Max(LongestCommon(Tail(a), b), LongestCommon(a, Tail(b)))

Matched == LongestCommon(argContent1, argContent2)

\* C11: identical blobs, two empty blobs included, score 100, and when
\* exactly one blob is empty the score is 0.
C11_IdenticalAndEmpty ==
    pc = "done" =>
        /\ argContent1 = argContent2 => contentSimilarity = 100
        /\ OneBlobEmpty => contentSimilarity = 0

\* two empty blobs were compared and scored 100
C11_Witness ==
    /\ pc = "done"
    /\ argContent1 = <<>>
    /\ argContent2 = <<>>
    /\ contentSimilarity = 100

\* C12 as the specification states it: the score is 100 only if the blobs
\* are identical.
C12_HundredOnlyIfIdentical ==
    pc = "done" => (contentSimilarity = 100 => argContent1 = argContent2)

\* C12: two different blobs of which the longer has fewer than 200
\* characters score at most 99.
C12_HundredOnlyIfIdenticalOrLong ==
    pc = "done" =>
        (argContent1 # argContent2 /\ LongerLength < 200
            => contentSimilarity <= 99)

\* two blobs of 199 characters that differ in one character scored 99
C12_Witness ==
    /\ pc = "done"
    /\ argContent1 # argContent2
    /\ Len(argContent1) = 199
    /\ Len(argContent2) = 199
    /\ Matched = 198
    /\ contentSimilarity = 99

\* the score is 0 by the two reasons the specification gives
NothingShared == OneBlobEmpty \/ (BothBlobsNonEmpty /\ Matched = 0)

\* C13 as the specification states it: the score is 0 if and only if
\* exactly one blob is empty or the blobs share no content, and two
\* non-empty blobs that share a character score at least 1.
C13_ZeroIffNothingShared ==
    pc = "done" =>
        /\ contentSimilarity = 0 <=> NothingShared
        /\ BothBlobsNonEmpty /\ Matched >= 1 => contentSimilarity >= 1

\* C13: the score is 0 when exactly one blob is empty or the blobs share no
\* content, and for blobs of at most 200 characters only then: two
\* non-empty blobs of at most 200 characters that share a character score
\* at least 1.
C13_ZeroIffNothingSharedUpTo200 ==
    pc = "done" =>
        /\ NothingShared => contentSimilarity = 0
        /\ LongerLength <= 200 => (contentSimilarity = 0 => NothingShared)
        /\ BothBlobsNonEmpty /\ Matched >= 1 /\ LongerLength <= 200
              => contentSimilarity >= 1

\* a blob of one character and a blob of 200 characters that share that
\* character scored 1
C13_Witness ==
    /\ pc = "done"
    /\ Len(argContent1) = 1
    /\ Len(argContent2) = 200
    /\ Matched = 1
    /\ contentSimilarity = 1

\* the integer nearest to num / den, a half rounded up
Rounded(num, den) ==
    CHOOSE q \in 0..(num \div den + 1) :
        /\ 2 * den * q - den <= 2 * num
        /\ 2 * num < 2 * den * q + den

\* C14 as the specification states it: for two non-empty, different blobs
\* the score is round(100 * matched / max(len(a), len(b))), an integer in
\* 0..100.
C14_RoundedRatio ==
    (pc = "done" /\ BothBlobsNonEmpty /\ argContent1 # argContent2) =>
        /\ contentSimilarity = Rounded(100 * Matched, LongerLength)
        /\ contentSimilarity \in 0..100

-----------------------------------------------------------------------------
(* calculateStringSimilarity: the call of StringSimilaritySpec has         *)
(* returned stringSimilarity for the strings argStr1 and argStr2.          *)

RECURSIVE EditDistance(_, _)
\* the least number of insertions, deletions and substitutions of one
\* character that turn a into b
EditDistance(a, b) ==
    IF a = <<>> THEN Len(b)
    ELSE IF b = <<>> THEN Len(a)
    ELSE IF Head(a) = Head(b) THEN EditDistance(Tail(a), Tail(b))
    ELSE 1 + Min3(EditDistance(Tail(a), b),
                  EditDistance(a, Tail(b)),
                  EditDistance(Tail(a), Tail(b)))

LongerString == Max(Len(argStr1), Len(argStr2))

\* C15: the similarity lies in [0, 1]; it is 1 - d / max(len) for the edit
\* distance d, which levenshteinDistance computes; it is 0 when exactly one
\* string is empty.
C15_EditDistanceRatio ==
    pc = "done" =>
        /\ stringSimilarity.den > 0
        /\ 0 <= stringSimilarity.num
        /\ stringSimilarity.num <= stringSimilarity.den
        /\ levenshteinDistance(argStr1, argStr2) = EditDistance(argStr1, argStr2)
        /\ LongerString > 0 =>
              stringSimilarity.num * LongerString
                 = (LongerString - EditDistance(argStr1, argStr2))
                      * stringSimilarity.den
        /\ (argStr1 = <<>>) # (argStr2 = <<>>) => stringSimilarity.num = 0

\* alpha and beta: four edits, similarity (5 - 4) / 5
C15_Witness ==
    /\ pc = "done"
    /\ argStr1 = alpha
    /\ argStr2 = beta
    /\ EditDistance(argStr1, argStr2) = 4
    /\ stringSimilarity = Fraction(1, 5)

\* C16 as the specification states it: two empty strings have similarity 0.
C16_EmptyStringsZero ==
    (pc = "done" /\ argStr1 = <<>> /\ argStr2 = <<>>) =>
        stringSimilarity.num = 0

\* C16: two empty strings are equal strings and have similarity 1.
C16_EmptyStringsOne ==
    (pc = "done" /\ argStr1 = <<>> /\ argStr2 = <<>>) =>
        stringSimilarity = Fraction(1, 1)

\* the call with two empty strings has returned 1
C16_Witness ==
    /\ pc = "done"
    /\ argStr1 = <<>>
    /\ argStr2 = <<>>
    /\ stringSimilarity.num = stringSimilarity.den

\* the paths of a file map
PathsOf(fileMap) == {fileMap[k].path : k \in 1..Len(fileMap)}

\* the content a file map has for one of its paths
ContentOf(fileMap, path) ==
    (CHOOSE entry \in {fileMap[k] : k \in 1..Len(fileMap)} : entry.path = path).content

\* the position of one of its paths in the iteration of a file map
PositionOf(fileMap, path) ==
    CHOOSE k \in 1..Len(fileMap) : fileMap[k].path = path

\* the variants other than the base variant, by position in config.variants
OtherVariants == 2..Len(config.variants)

\* the request has been answered with a list of suggestions
Answered == pc = "done" /\ response.status = 200

\* C17: no returned suggestion has a variantFile that is a path of the base
\* tree, and each has a variant of its label whose tree holds its variantFile
\* and does not hold its baseFile; a path of both trees is in no suggestion.
C17_NoSharedPathSuggested ==
    Answered =>
        \A p \in 1..Len(response.suggestions) :
            LET s == response.suggestions[p]
            IN  /\ s.variantFile \notin PathsOf(files[1])
                /\ s.baseFile \in PathsOf(files[1])
                /\ \E k \in OtherVariants :
                      /\ labelOfVariant(k) = s.variantLabel
                      /\ s.variantFile \in PathsOf(files[k])
                      /\ s.baseFile \notin PathsOf(files[k])

\* C.java is in both trees with the same content, and the answer has a
\* suggestion, for another pair of files
C17_Witness ==
    /\ Answered
    /\ files[3] = <<>>
    /\ "C.java" \in PathsOf(files[1]) \cap PathsOf(files[2])
    /\ ContentOf(files[1], "C.java") = ContentOf(files[2], "C.java")
    /\ response.suggestions # <<>>
    /\ \A p \in 1..Len(response.suggestions) :
          /\ response.suggestions[p].baseFile # "C.java"
          /\ response.suggestions[p].variantFile # "C.java"

\* the candidate pairs of variant k that are kept
KeptPairs(k) ==
    { pair \in PathsOf(files[1]) \X PathsOf(files[k]) :
        /\ pair[1] \notin PathsOf(files[k])
        /\ pair[2] \notin PathsOf(files[1])
        /\ ~threshold.nan
        /\ calculateSimilarity(ContentOf(files[1], pair[1]),
                               ContentOf(files[k], pair[2])) >= threshold.value }

\* the positions of the answer with one pair of files under one label
PositionsWith(pair, label) ==
    { p \in 1..Len(response.suggestions) :
        /\ response.suggestions[p].baseFile = pair[1]
        /\ response.suggestions[p].variantFile = pair[2]
        /\ response.suggestions[p].variantLabel = label }

\* C18: the answer holds, once for each variant, the candidate pairs of the
\* variant whose similarity is at least the threshold, with that similarity,
\* and nothing else; at threshold 50 it holds no pair scoring 49.
C18_ExactlyThePairsAboveThreshold ==
    Answered =>
        /\ \A p \in 1..Len(response.suggestions) :
              LET s == response.suggestions[p]
              IN  \E k \in OtherVariants :
                     /\ labelOfVariant(k) = s.variantLabel
                     /\ <<s.baseFile, s.variantFile>> \in KeptPairs(k)
                     /\ s.similarity =
                           calculateSimilarity(ContentOf(files[1], s.baseFile),
                                               ContentOf(files[k], s.variantFile))
        /\ \A k \in OtherVariants : \A pair \in KeptPairs(k) :
              Cardinality(PositionsWith(pair, labelOfVariant(k)))
                 = Cardinality({ l \in OtherVariants :
                                   /\ labelOfVariant(l) = labelOfVariant(k)
                                   /\ pair \in KeptPairs(l) })
        /\ (~threshold.nan /\ threshold.value = 50) =>
              \A p \in 1..Len(response.suggestions) :
                  response.suggestions[p].similarity # 49

\* at threshold 49 a pair scoring exactly 49 is returned, and one file of
\* the variant is in two suggestions
C18_Witness ==
    /\ Answered
    /\ threshold = [nan |-> FALSE, value |-> 49]
    /\ \E p, q \in 1..Len(response.suggestions) :
          /\ p # q
          /\ response.suggestions[p].similarity = 49
          /\ response.suggestions[p].variantLabel = response.suggestions[q].variantLabel
          /\ response.suggestions[p].variantFile = response.suggestions[q].variantFile
          /\ response.suggestions[p].baseFile # response.suggestions[q].baseFile

\* the similarities that occur in a list of suggestions
SimilaritiesOf(list) == {list[p].similarity : p \in 1..Len(list)}

\* the suggestions of a list with one similarity, in the order of the list
WithSimilarity(list, n) ==
    LET at == { p \in 1..Len(list) : list[p].similarity = n }
        RECURSIVE pick(_)
        pick(from) ==
            IF \A p \in at : p < from THEN <<>>
            ELSE LET p == CHOOSE p \in at : p >= from /\ \A q \in at : q >= from => p <= q
                 IN  <<list[p]>> \o pick(p + 1)
    IN  pick(1)

\* C19: the answer is in non-increasing order of similarity, and the
\* suggestions of each similarity are those that were generated, in the
\* order in which they were generated.
C19_SortedAndStable ==
    Answered =>
        /\ \A p, q \in 1..Len(response.suggestions) :
              p < q => response.suggestions[p].similarity
                          >= response.suggestions[q].similarity
        /\ Len(response.suggestions) = Len(suggestions)
        /\ \A n \in SimilaritiesOf(suggestions) \cup SimilaritiesOf(response.suggestions) :
              WithSimilarity(response.suggestions, n) = WithSimilarity(suggestions, n)

\* suggestions of similarity 49 were generated before suggestions of
\* similarity 100, and there are two of each
C19_Witness ==
    /\ Answered
    /\ Len(suggestions) >= 4
    /\ response.suggestions # suggestions
    /\ suggestions[1].similarity = 49
    /\ Len(WithSimilarity(response.suggestions, 49)) >= 2
    /\ Len(WithSimilarity(response.suggestions, 100)) >= 2
    /\ WithSimilarity(response.suggestions, 49)[1]
          # WithSimilarity(response.suggestions, 49)[2]

\* the variant a label names, when it names exactly one
VariantOf(label) == CHOOSE k \in OtherVariants : labelOfVariant(k) = label

NamesOneVariant(label) ==
    Cardinality({k \in OtherVariants : labelOfVariant(k) = label}) = 1

\* two suggestions of equal similarity for one variant, the first before the
\* second in the answer
TiedForOneVariant(p, q) ==
    /\ p < q
    /\ response.suggestions[p].similarity = response.suggestions[q].similarity
    /\ response.suggestions[p].variantLabel = response.suggestions[q].variantLabel
    /\ NamesOneVariant(response.suggestions[p].variantLabel)

\* C20 as the specification states it: among the suggestions of equal
\* similarity for one variant, those of an earlier-iterated base file come
\* before those of a later-iterated base file.
C20_BaseFilesOuter ==
    Answered =>
        \A p, q \in 1..Len(response.suggestions) :
            TiedForOneVariant(p, q) =>
                PositionOf(files[1], response.suggestions[p].baseFile)
                   <= PositionOf(files[1], response.suggestions[q].baseFile)

\* C20: among the suggestions of equal similarity for one variant, those of
\* an earlier-iterated file of the variant come before those of a later one,
\* and those of one file of the variant are in the order of the base files.
C20_VariantFilesOuter ==
    Answered =>
        \A p, q \in 1..Len(response.suggestions) :
            TiedForOneVariant(p, q) =>
                LET tree == files[VariantOf(response.suggestions[p].variantLabel)]
                    vi == PositionOf(tree, response.suggestions[p].variantFile)
                    vj == PositionOf(tree, response.suggestions[q].variantFile)
                    bi == PositionOf(files[1], response.suggestions[p].baseFile)
                    bj == PositionOf(files[1], response.suggestions[q].baseFile)
                IN  vi < vj \/ (vi = vj /\ bi < bj)

\* two files of the base and two files of one variant give four suggestions
\* of equal similarity: the second is for the second base file, the third
\* for the first base file
C20_Witness ==
    /\ Answered
    /\ files[3] = <<>>
    /\ Len(files[1]) = 2
    /\ Len(files[2]) = 2
    /\ Len(response.suggestions) = 4
    /\ \A p \in 1..4 : response.suggestions[p].similarity = 100
    /\ response.suggestions[2].baseFile = files[1][2].path
    /\ response.suggestions[2].variantFile = files[2][1].path
    /\ response.suggestions[3].baseFile = files[1][1].path
    /\ response.suggestions[3].variantFile = files[2][2].path

Returned ==
    IF config.present THEN response
    ELSE IF baseContent # <<>> THEN processed
    ELSE contentSimilarity

InsideBaseDir(path) ==
    /\ Len(path) >= Len(ALLOWED_BASE_DIR)
    /\ \A k \in 1..Len(ALLOWED_BASE_DIR) : path[k] = ALLOWED_BASE_DIR[k]

\* C23: normalizeTargetFolder throws or returns ALLOWED_BASE_DIR or a path
\* beneath it; every destination POST /api/download clones to lies inside
\* ALLOWED_BASE_DIR, and nothing is cloned when the target folder is refused.
C23_InsideBaseDir ==
    LET normalized == normalizeTargetFolder(payload.targetFolder)
    IN  /\ normalized.threw \/ InsideBaseDir(normalized.absolute)
        /\ normalized.threw => cloned = <<>>
        /\ (~normalized.threw /\ pc # "download") => InsideBaseDir(targetRoot)
        /\ \A k \in 1..Len(cloned) : InsideBaseDir(cloned[k])

\* the target folder /d/.. is accepted as ALLOWED_BASE_DIR itself and two
\* repositories have been cloned beneath it
C23_Witness ==
    /\ pc = "done"
    /\ payload.targetFolder = <<"/", "d", "/", ".", ".">>
    /\ targetRoot = ALLOWED_BASE_DIR
    /\ downloadResponse.status = 200
    /\ Len(cloned) = 2
    /\ cloned[1] # cloned[2]

\* the reviews of a list with the key of a request
ReviewsOf(list, key) ==
    { k \in 1..Len(list) : /\ list[k].filePath = key.filePath
                           /\ list[k].variantLabel = key.variantLabel
                           /\ list[k].compareType = key.compareType }

\* no request is being handled
Quiet == pc = "idle"

\* C27: from an empty review list, after the requests made so far the list
\* has at most one review of each key, with the status of the latest
\* request of the key, and none when that status is unchecked.
C27_LatestStatusStored ==
    (Quiet /\ initialReviews = <<>>) =>
        \A key \in RequestKeys :
            LET found == ReviewsOf(stored.reviewStatuses, key)
            IN  /\ Cardinality(found) <= 1
                /\ latest[key] \in {"none", "unchecked"} => found = {}
                /\ latest[key] \in StoredStatuses =>
                      \E k \in found : stored.reviewStatuses[k].status = latest[key]

\* three requests from an empty list: f is marked correct, g needs
\* attention, f is unchecked again; the list holds the review of g alone
C27_Witness ==
    /\ Quiet
    /\ initialReviews = <<>>
    /\ reviewCount = 3
    /\ reviewBody.filePath = <<"f">>
    /\ reviewBody.status = "unchecked"
    /\ latest[keyOf(reviewBody)] = "unchecked"
    /\ Len(stored.reviewStatuses) = 1
    /\ stored.reviewStatuses[1].filePath = <<"X", ":", "g">>
    /\ stored.reviewStatuses[1].status = "needs-attention"

\* a review that a request must leave alone: it has another key than the
\* request and is not the review without prefix of the file of the request
OfAnotherKey(review, body) ==
    /\ ~(/\ review.filePath = fullKeyOf(body)
         /\ review.variantLabel = body.variantLabel
         /\ review.compareType = body.compareType)
    /\ ~(/\ review.filePath = body.filePath
         /\ review.variantLabel = body.variantLabel
         /\ review.compareType = body.compareType)

\* C28: a request leaves every review of another key in the list, as it was.
C28_OtherKeysUnchanged ==
    [][(pc = "review" /\ pc' = "idle") =>
          \A k \in 1..Len(stored.reviewStatuses) :
              OfAnotherKey(stored.reviewStatuses[k], reviewBody) =>
                  \E l \in 1..Len(stored'.reviewStatuses) :
                      stored'.reviewStatuses[l] = stored.reviewStatuses[k]]_vars

\* C24 as the specification states it: when no request is being handled,
\* the stored list has, for every key, the status of the latest completed
\* POST /api/review-status of the key.
C24_SaveKeepsReviews ==
    (pc = "idle" /\ savePc = "idle") =>
        \A key \in RequestKeys :
            LET found == ReviewsOf(stored.reviewStatuses, key)
            IN  /\ latest[key] = "unchecked" => found = {}
                /\ latest[key] \in StoredStatuses =>
                      \E k \in found : stored.reviewStatuses[k].status = latest[key]

\* C29 as the specification states it: no modify entry of computeLineDiff
\* has a base line equal to its variant line.
C29_ModifyDiffers ==
    \A k \in 1..Len(processed) :
        processed[k].type = "modify" => processed[k].base # processed[k].variant

\* C30 as the specification states it: when POST /api/compare has answered,
\* the map of each variant whose directory exists has one entry for every
\* file read from the directory, under the path the file is compared at,
\* and no two files of the directory are compared at the same path.
C30_NoVariantFileLost ==
    (pc = "done" /\ compareResponse.status = 200 /\ ComparesRepositories) =>
        \A v \in 1..Len(variantFileMaps) :
            LET dir == disk[v + 1].files
                label == variantFileMaps[v].label
                at(k) == comparisonPath(compareConfig.fileMappings,
                                        dir[k].path, label)
            IN  variantFileMaps[v].exists =>
                    /\ Len(variantFileMaps[v].files) = Len(dir)
                    /\ \A k \in 1..Len(dir) :
                           has(variantFileMaps[v].files, at(k))
                    /\ \A k, l \in 1..Len(dir) : k # l => at(k) # at(l)

\* the comparisons the server has computed and the client not yet received
Computed ==
    { k \in 1..Len(requests) :
        requests[k].url = "/api/compare" /\ requests[k].handled }

\* C25 as the specification states it: a comparison is computed against
\* the exercise that was active in the client when the request was sent;
\* no request is sent before the save of the new index is done.
C25_CompareAfterSave ==
    \A k \in Computed : requests[k].against = requests[k].index

\* C26: after any calls of addExercise, deleteExercise and
\* setActiveExerciseIndex with valid arguments there is an exercise and
\* activeExerciseIndex is the index of one; deleteExercise with a single
\* exercise left leaves the exercises and the index as they were.
C26_ActiveExerciseExists ==
    /\ Len(exercises) >= 1
    /\ activeExerciseIndex \in 0..(Len(exercises) - 1)
    /\ (lastCall.op = "deleteExercise" /\ Len(lastCall.exercises) = 1) =>
           /\ exercises = lastCall.exercises
           /\ activeExerciseIndex = lastCall.activeExerciseIndex

\* the last of several exercises was active and the first has been
\* deleted: the exercise is still the active one, at the index before
C26_Witness ==
    /\ lastCall.op = "deleteExercise"
    /\ Len(lastCall.exercises) > 2
    /\ lastCall.activeExerciseIndex = Len(lastCall.exercises) - 1
    /\ exercises = Tail(lastCall.exercises)
    /\ activeExerciseIndex = lastCall.activeExerciseIndex - 1

====
